---- MODULE Spec2Model ----
(***************************************************************************)
(* TreeLab: the tree algorithm engine (BST, AVL, Red-Black, Min-Heap,      *)
(* Trie, Fenwick tree, Segment tree, B-Tree, B+ Tree) as a state machine.  *)
(* One structure instance is alive in a behaviour; `kind` says which class *)
(* it is.                                                                  *)
(***************************************************************************)
EXTENDS Integers, Sequences, FiniteSets, TLC

\* Bounds of the model.
MaxVal == 4        \* numeric inputs are drawn from 1..MaxVal
MaxInsertVal == 7  \* ... and from 1..MaxInsertVal where only insert is called
MaxHeapLen == 7    \* the heap array holds at most this many values
MaxWords == 3      \* Trie.insert is called while wordCount is below this
MaxData == 4       \* the Fenwick tree holds at most this many values
DeepOps == 2       \* how many nodes below its 12 the prebuilt AVL tree is explored
MaxKey == 4        \* B-Tree and B+ Tree inputs are drawn from 1..MaxKey
MaxInserts == 10   \* BTree.insert and BPlusTree.insert are called at most this often
MaxSearched == 5   \* ... and at most this often where search and delete are called too
MaxBalanced == 5   \* a BST that is balanced gets its values from 1..MaxBalanced
MaxSteps == 3      \* the animation log holds at most this many steps
MaxCallbacks == 3  \* at most this many callbacks are subscribed at a time

VARIABLES
    kind,        \* class of the structure instance
    root,        \* TreeBase.root
    nodeCount,   \* TreeBase.nodeCount
    array,       \* MinHeap.array
    wordCount,   \* Trie.wordCount
    data,        \* FenwickTree.data
    tree,        \* FenwickTree.tree (index 0 is the dummy slot)
    degree,      \* BTree.t / BPlusTree.t: the minimum degree
    call,        \* the last public call: [op, arg]
    ret,         \* what that call returned
    emitted,     \* the events that call published on the event bus, in order
    arrays,      \* the array objects of the animation log, by identity
    animationSteps,  \* TreeBase.animationSteps: the array the field refers to
    steps,       \* the array a caller got from getAnimationSteps and still holds
    events,      \* EventBus.events: for each event name its array of callbacks
    invoked,     \* the callbacks that the last emit call invoked, in order
    present      \* history: what was inserted and not deleted since

vars == <<kind, root, nodeCount, array, wordCount, data, tree, degree, call, ret, emitted,
          arrays, animationSteps, steps, events, invoked, present>>

ArrayIds == 1..3      \* names of the array objects of the animation log
EventNames == {"a", "b"}   \* the event names that callbacks subscribe to
null == <<>>          \* JavaScript null (object references)
NoRef == 0            \* null in a parent back-reference (nodes are named by id >= 1)
GONE == -1            \* a back-reference to a node that is no longer in the tree
TypeError == [thrown |-> "TypeError"]   \* the call threw a TypeError instead of returning
undefined == [undefined |-> TRUE]   \* the value of a call that returns nothing

Values == 1..MaxVal

Max(a, b) == IF a >= b THEN a ELSE b

\* A value that is not a number: a text such as "abc" given as input, the
\* undefined read from an array slot that does not exist, and parseInt's NaN.
TEXT == -97
undefinedKey == -98
NaN == -99

IsNumber(v) == v \notin {TEXT, undefinedKey, NaN}

\* JavaScript a < b and a > b: false unless both sides are numbers (the one
\* text of the model is not below or above itself).
lt(a, b) == IsNumber(a) /\ IsNumber(b) /\ a < b

gt(a, b) == IsNumber(a) /\ IsNumber(b) /\ a > b

parseInt(value) == IF IsNumber(value) THEN value ELSE NaN

isNaN(v) == v = NaN

Range(seq) == {seq[i] : i \in 1..Len(seq)}

\* src/assets/js/core/TreeNode.js: a fresh node object; `id` is its identity.
TreeNode(id, value) ==
    [id |-> id, value |-> value, left |-> null, right |-> null,
     height |-> 1, color |-> "RED", parent |-> NoRef]

isLeaf(node) == node.left = null /\ node.right = null

\* A test that also holds of a node with two children.
hasOneChild_orTwo(node) == node.left # null \/ node.right # null

hasOneChild(node) ==
    \/ (node.left = null /\ node.right # null)
    \/ (node.left # null /\ node.right = null)

\* Object identity.  A node in the tree is named by the value it holds when a
\* call returns (values in a tree are distinct); every node that is no longer in
\* the tree is named GONE.  CanonicalNames renames a tree that way after a call
\* changed a node's value or detached a node: it changes only the names, never
\* which node a reference points to.
RECURSIVE Names(_)
Names(node) ==
    IF node = null THEN {}
    ELSE {<<node.id, node.value>>} \cup Names(node.left) \cup Names(node.right)

RECURSIVE Renamed(_, _)
Renamed(node, names) ==
    LET nameOf(ref) ==
            IF ref = NoRef THEN NoRef
            ELSE IF \E nm \in names : nm[1] = ref
                 THEN (CHOOSE nm \in names : nm[1] = ref)[2]
                 ELSE GONE
    IN  IF node = null THEN null
        ELSE [node EXCEPT !.id = node.value, !.parent = nameOf(node.parent),
                          !.left = Renamed(node.left, names),
                          !.right = Renamed(node.right, names)]

CanonicalNames(r) == Renamed(r, Names(r))

setParent(node, p) == IF node = null THEN null ELSE [node EXCEPT !.parent = p]

(***************************************************************************)
(* TreeBase                                                                *)
(***************************************************************************)
\* _getHeight: the structural height of a subtree.
RECURSIVE getHeight(_)
getHeight(node) ==
    IF node = null THEN 0
    ELSE 1 + Max(getHeight(node.left), getHeight(node.right))

\* _inorder with the callback of getValues: the values pushed, in order.
RECURSIVE inorder(_)
inorder(node) ==
    IF node = null THEN <<>>
    ELSE inorder(node.left) \o <<node.value>> \o inorder(node.right)

(***************************************************************************)
(* Binary Search Tree                                                      *)
(***************************************************************************)
\* Results of the recursive helpers: the returned node and this.nodeCount.
RECURSIVE BST_insertNode(_, _, _, _)
BST_insertNode(node, value, c, nid) ==
    IF lt(value, node.value) THEN
        IF node.left = null
        THEN [n |-> [node EXCEPT !.left = setParent(TreeNode(nid, value), node.id)], c |-> c + 1]
        ELSE LET r == BST_insertNode(node.left, value, c, nid)
             IN  [n |-> [node EXCEPT !.left = r.n], c |-> r.c]
    ELSE IF gt(value, node.value) THEN
        IF node.right = null
        THEN [n |-> [node EXCEPT !.right = setParent(TreeNode(nid, value), node.id)], c |-> c + 1]
        ELSE LET r == BST_insertNode(node.right, value, c, nid)
             IN  [n |-> [node EXCEPT !.right = r.n], c |-> r.c]
    ELSE [n |-> node, c |-> c]

\* _inorder with the callback of balance: the nodes pushed, in order.
RECURSIVE inorderNodes(_)
inorderNodes(node) ==
    IF node = null THEN <<>>
    ELSE inorderNodes(node.left) \o <<node>> \o inorderNodes(node.right)

\* A rebuild that always takes the first node of the range as the root.
RECURSIVE buildBalancedTree_first(_, _, _)
buildBalancedTree_first(nodes, start, end) ==
    IF start > end THEN null
    ELSE LET node == nodes[start + 1]
         IN  [node EXCEPT
                 !.left = null,
                 !.right = setParent(buildBalancedTree_first(nodes, start + 1, end), node.id)]

\* _buildBalancedTree(nodes, start, end): the node keeps its own parent field.
RECURSIVE buildBalancedTree(_, _, _)
buildBalancedTree(nodes, start, end) ==
    IF start > end THEN null
    ELSE LET mid  == (start + end) \div 2
             node == nodes[mid + 1]
         IN  [node EXCEPT
                 !.left = setParent(buildBalancedTree(nodes, start, mid - 1), node.id),
                 !.right = setParent(buildBalancedTree(nodes, mid + 1, end), node.id)]

RECURSIVE BST_searchNode(_, _)
BST_searchNode(node, value) ==
    IF node = null THEN null
    ELSE IF value = node.value THEN node
    ELSE IF lt(value, node.value) THEN BST_searchNode(node.left, value)
    ELSE BST_searchNode(node.right, value)

\* Mutant: the successor search does not descend to the leftmost node.
BST_findMin_noDescent(node) == node

RECURSIVE BST_findMin(_)
BST_findMin(node) == IF node.left # null THEN BST_findMin(node.left) ELSE node

RECURSIVE BST_deleteNode(_, _, _)
BST_deleteNode(node, value, c) ==
    IF node = null THEN [n |-> null, c |-> c]
    ELSE IF lt(value, node.value) THEN
        LET r == BST_deleteNode(node.left, value, c)
        IN  [n |-> [node EXCEPT !.left = r.n], c |-> r.c]
    ELSE IF gt(value, node.value) THEN
        LET r == BST_deleteNode(node.right, value, c)
        IN  [n |-> [node EXCEPT !.right = r.n], c |-> r.c]
    ELSE IF isLeaf(node) THEN [n |-> null, c |-> c - 1]
    ELSE IF hasOneChild(node)
        THEN [n |-> IF node.left # null THEN node.left ELSE node.right, c |-> c - 1]
    ELSE LET successor == BST_findMin(node.right)
             r == BST_deleteNode(node.right, successor.value, c)
         IN  [n |-> [node EXCEPT !.value = successor.value, !.right = r.n], c |-> r.c]

(***************************************************************************)
(* AVL Tree                                                                *)
(***************************************************************************)
getNodeHeight(node) == IF node = null THEN 0 ELSE node.height

\* A height update that looks at the left child only.
updateHeight_leftOnly(node) ==
    IF node # null
    THEN [node EXCEPT !.height = 1 + getNodeHeight(node.left)]
    ELSE node

updateHeight(node) ==
    IF node # null
    THEN [node EXCEPT !.height = 1 + Max(getNodeHeight(node.left), getNodeHeight(node.right))]
    ELSE node

getBalance(node) ==
    IF node = null THEN 0
    ELSE getNodeHeight(node.left) - getNodeHeight(node.right)

\* Mutant: the rotation forgets `y.left = T2`.
AVL_rotateRight_keepsLeft(y) ==
    LET x  == y.left
        y1 == updateHeight([y EXCEPT !.parent = x.id])
    IN  updateHeight([x EXCEPT !.right = y1, !.parent = y.parent])

AVL_rotateRight(y) ==
    LET x  == y.left
        T2 == x.right
        y1 == updateHeight([y EXCEPT !.left = setParent(T2, y.id), !.parent = x.id])
    IN  updateHeight([x EXCEPT !.right = y1, !.parent = y.parent])

AVL_rotateLeft(x) ==
    LET y  == x.right
        T2 == y.left
        x1 == updateHeight([x EXCEPT !.right = setParent(T2, x.id), !.parent = y.id])
    IN  updateHeight([y EXCEPT !.left = x1, !.parent = x.parent])

\* Mutant: insert updates the height but never rotates.
AVL_insertRebalance_noRotation(node0, value) == updateHeight(node0)

\* The part of _insertNode after the recursive call: height, balance, rotations.
AVL_insertRebalance(node0, value) ==
    LET node    == updateHeight(node0)
        balance == getBalance(node)
    IN  IF balance > 1 /\ lt(value, node.left.value) THEN AVL_rotateRight(node)
        ELSE IF balance < -1 /\ gt(value, node.right.value) THEN AVL_rotateLeft(node)
        ELSE IF balance > 1 /\ gt(value, node.left.value)
            THEN AVL_rotateRight([node EXCEPT !.left = AVL_rotateLeft(node.left)])
        ELSE IF balance < -1 /\ lt(value, node.right.value)
            THEN AVL_rotateLeft([node EXCEPT !.right = AVL_rotateRight(node.right)])
        ELSE node

RECURSIVE AVL_insertNode(_, _, _, _)
AVL_insertNode(node, value, c, nid) ==
    IF node = null THEN [n |-> TreeNode(nid, value), c |-> c + 1]
    ELSE IF lt(value, node.value) THEN
        LET r == AVL_insertNode(node.left, value, c, nid)
        IN  [n |-> AVL_insertRebalance([node EXCEPT !.left = setParent(r.n, node.id)], value),
             c |-> r.c]
    ELSE IF gt(value, node.value) THEN
        LET r == AVL_insertNode(node.right, value, c, nid)
        IN  [n |-> AVL_insertRebalance([node EXCEPT !.right = setParent(r.n, node.id)], value),
             c |-> r.c]
    ELSE [n |-> node, c |-> c]

\* Twelve inserts that build, without a rotation, the sparsest AVL tree of
\* height 5: every node leans left, so one delete can unbalance two levels.
DeepInserts == <<8, 5, 11, 3, 7, 10, 12, 2, 4, 6, 9, 1>>

RECURSIVE AVL_inserted(_)
AVL_inserted(k) ==
    IF k = 0 THEN [n |-> null, c |-> 0]
    ELSE LET before == AVL_inserted(k - 1)
         IN  AVL_insertNode(before.n, DeepInserts[k], before.c, DeepInserts[k])

RECURSIVE AVL_findMin(_)
AVL_findMin(node) == IF node.left # null THEN AVL_findMin(node.left) ELSE node

\* A rebalancing that resets the height of every node on the path.
AVL_deleteRebalance_resetHeight(node0) == [node0 EXCEPT !.height = 1]

\* Mutant: delete updates the height but never rotates.
AVL_deleteRebalance_noRotation(node0) == updateHeight(node0)

\* The part of _deleteNode after the BST delete: height, balance, rotations.
AVL_deleteRebalance(node0) ==
    LET node    == updateHeight(node0)
        balance == getBalance(node)
    IN  IF balance > 1 /\ getBalance(node.left) >= 0 THEN AVL_rotateRight(node)
        ELSE IF balance > 1 /\ getBalance(node.left) < 0
            THEN AVL_rotateRight([node EXCEPT !.left = AVL_rotateLeft(node.left)])
        ELSE IF balance < -1 /\ getBalance(node.right) <= 0 THEN AVL_rotateLeft(node)
        ELSE IF balance < -1 /\ getBalance(node.right) > 0
            THEN AVL_rotateLeft([node EXCEPT !.right = AVL_rotateRight(node.right)])
        ELSE node

RECURSIVE AVL_deleteNode(_, _, _)
AVL_deleteNode(node, value, c) ==
    IF node = null THEN [n |-> null, c |-> c]
    ELSE IF lt(value, node.value) THEN
        LET r == AVL_deleteNode(node.left, value, c)
        IN  [n |-> AVL_deleteRebalance([node EXCEPT !.left = r.n]), c |-> r.c]
    ELSE IF gt(value, node.value) THEN
        LET r == AVL_deleteNode(node.right, value, c)
        IN  [n |-> AVL_deleteRebalance([node EXCEPT !.right = r.n]), c |-> r.c]
    ELSE IF node.left = null \/ node.right = null
        THEN [n |-> IF node.left # null THEN node.left ELSE node.right, c |-> c - 1]
    ELSE LET successor == AVL_findMin(node.right)
             r == AVL_deleteNode(node.right, successor.value, c)
         IN  [n |-> AVL_deleteRebalance([node EXCEPT !.value = successor.value, !.right = r.n]),
              c |-> r.c]

RECURSIVE AVL_searchNode(_, _)
AVL_searchNode(node, value) ==
    IF node = null THEN null
    ELSE IF value = node.value THEN node
    ELSE IF lt(value, node.value) THEN AVL_searchNode(node.left, value)
    ELSE AVL_searchNode(node.right, value)

RECURSIVE checkBalance(_)
checkBalance(node) ==
    IF node = null THEN TRUE
    ELSE IF getBalance(node) > 1 \/ getBalance(node) < -1 THEN FALSE
    ELSE checkBalance(node.left) /\ checkBalance(node.right)

(***************************************************************************)
(* Red-Black Tree                                                          *)
(***************************************************************************)
isRed(node) == IF node = null THEN FALSE ELSE node.color = "RED"

\* An assignment that leaves the colour as it is.
setColor_keep(node, color) == node

setColor(node, color) == IF node = null THEN null ELSE [node EXCEPT !.color = color]

flipColors(node) ==
    [node EXCEPT !.color = "RED",
                 !.left = setColor(node.left, "BLACK"),
                 !.right = setColor(node.right, "BLACK")]

RB_rotateLeft(node) ==
    LET x  == node.right
        n1 == [node EXCEPT !.right = setParent(x.left, node.id), !.color = "RED", !.parent = x.id]
    IN  [x EXCEPT !.left = n1, !.color = node.color, !.parent = node.parent]

RB_rotateRight(node) ==
    LET x  == node.left
        n1 == [node EXCEPT !.left = setParent(x.right, node.id), !.color = "RED", !.parent = x.id]
    IN  [x EXCEPT !.right = n1, !.color = node.color, !.parent = node.parent]

\* Mutant: the fix-up never flips colors.
fixInsertion_noFlip(node) ==
    LET n2 == IF isRed(node.right) /\ ~isRed(node.left) THEN RB_rotateLeft(node) ELSE node
    IN  IF isRed(n2.left) /\ isRed(n2.left.left) THEN RB_rotateRight(n2) ELSE n2

fixInsertion(node) ==
    LET n1 == IF isRed(node.left) /\ isRed(node.right) THEN flipColors(node) ELSE node
        n2 == IF isRed(n1.right) /\ ~isRed(n1.left) THEN RB_rotateLeft(n1) ELSE n1
    IN  IF isRed(n2.left) /\ isRed(n2.left.left) THEN RB_rotateRight(n2) ELSE n2

RECURSIVE RB_insertNode(_, _, _, _)
RB_insertNode(node, value, c, nid) ==
    IF node = null THEN [n |-> TreeNode(nid, value), c |-> c + 1]
    ELSE IF lt(value, node.value) THEN
        LET r == RB_insertNode(node.left, value, c, nid)
        IN  [n |-> fixInsertion([node EXCEPT !.left = setParent(r.n, node.id)]), c |-> r.c]
    ELSE IF gt(value, node.value) THEN
        LET r == RB_insertNode(node.right, value, c, nid)
        IN  [n |-> fixInsertion([node EXCEPT !.right = setParent(r.n, node.id)]), c |-> r.c]
    ELSE [n |-> node, c |-> c]

RECURSIVE RB_searchNode(_, _)
RB_searchNode(node, value) ==
    IF node = null THEN null
    ELSE IF value = node.value THEN node
    ELSE IF lt(value, node.value) THEN RB_searchNode(node.left, value)
    ELSE RB_searchNode(node.right, value)

RECURSIVE RB_findMin(_)
RB_findMin(node) == IF node.left # null THEN RB_findMin(node.left) ELSE node

RECURSIVE simpleBSTDelete(_, _, _)
simpleBSTDelete(node, value, c) ==
    IF node = null THEN [n |-> null, c |-> c]
    ELSE IF lt(value, node.value) THEN
        LET r == simpleBSTDelete(node.left, value, c)
        IN  [n |-> [node EXCEPT !.left = r.n], c |-> r.c]
    ELSE IF gt(value, node.value) THEN
        LET r == simpleBSTDelete(node.right, value, c)
        IN  [n |-> [node EXCEPT !.right = r.n], c |-> r.c]
    ELSE IF node.left = null THEN [n |-> node.right, c |-> c - 1]
    ELSE IF node.right = null THEN [n |-> node.left, c |-> c - 1]
    ELSE LET successor == RB_findMin(node.right)
             r == simpleBSTDelete(node.right, successor.value, c)
         IN  [n |-> [node EXCEPT !.value = successor.value, !.right = r.n], c |-> r.c]

(***************************************************************************)
(* Min-Heap.  A JavaScript array is a sequence; JavaScript index i is      *)
(* position i + 1 of the sequence.                                         *)
(***************************************************************************)
at(arr, i) == arr[i + 1]

swap(arr, i, j) == [arr EXCEPT ![i + 1] = arr[j + 1], ![j + 1] = arr[i + 1]]

\* A sift-up that stops after one exchange.
heapifyUp_oneSwap(arr, index) ==
    IF index = 0 THEN arr
    ELSE LET parentIndex == (index - 1) \div 2
         IN  IF lt(at(arr, index), at(arr, parentIndex))
             THEN swap(arr, index, parentIndex)
             ELSE arr

RECURSIVE heapifyUp(_, _)
heapifyUp(arr, index) ==
    IF index = 0 THEN arr
    ELSE LET parentIndex == (index - 1) \div 2
         IN  IF lt(at(arr, index), at(arr, parentIndex))
             THEN heapifyUp(swap(arr, index, parentIndex), parentIndex)
             ELSE arr

\* A sift-down that never looks at the right child.
RECURSIVE heapifyDown_leftOnly(_, _)
heapifyDown_leftOnly(arr, index) ==
    LET leftChild == 2 * index + 1
        smallest  == IF leftChild < Len(arr) /\ lt(at(arr, leftChild), at(arr, index))
                     THEN leftChild ELSE index
    IN  IF smallest # index
        THEN heapifyDown_leftOnly(swap(arr, index, smallest), smallest)
        ELSE arr

RECURSIVE heapifyDown(_, _)
heapifyDown(arr, index) ==
    LET leftChild  == 2 * index + 1
        rightChild == 2 * index + 2
        s1 == IF leftChild < Len(arr) /\ lt(at(arr, leftChild), at(arr, index))
              THEN leftChild ELSE index
        smallest == IF rightChild < Len(arr) /\ lt(at(arr, rightChild), at(arr, s1))
                    THEN rightChild ELSE s1
    IN  IF smallest # index THEN heapifyDown(swap(arr, index, smallest), smallest) ELSE arr

\* The display tree of the array; the node built for index i is named i + 1.
RECURSIVE buildTreeFromArray(_, _)
buildTreeFromArray(arr, index) ==
    IF index >= Len(arr) THEN null
    ELSE [TreeNode(index + 1, at(arr, index)) EXCEPT
             !.left  = setParent(buildTreeFromArray(arr, 2 * index + 1), index + 1),
             !.right = setParent(buildTreeFromArray(arr, 2 * index + 2), index + 1)]

(***************************************************************************)
(* Trie.  A string is a sequence of characters; a Map is the sequence of   *)
(* its entries in insertion order (the key of an entry is its node's char).*)
(***************************************************************************)
UpperCase ==
    <<"A", "B", "C", "D", "E", "F", "G", "H", "I", "J", "K", "L", "M",
      "N", "O", "P", "Q", "R", "S", "T", "U", "V", "W", "X", "Y", "Z">>

LowerCase ==
    <<"a", "b", "c", "d", "e", "f", "g", "h", "i", "j", "k", "l", "m",
      "n", "o", "p", "q", "r", "s", "t", "u", "v", "w", "x", "y", "z">>

toLowerCase(word) ==
    [i \in 1..Len(word) |->
        IF \E k \in 1..Len(UpperCase) : UpperCase[k] = word[i]
        THEN LowerCase[CHOOSE k \in 1..Len(UpperCase) : UpperCase[k] = word[i]]
        ELSE word[i]]

TrieNode(char) == [char |-> char, children |-> <<>>, isEndOfWord |-> FALSE, value |-> char]

has(children, char) == \E k \in 1..Len(children) : children[k].char = char

get(children, char) == children[CHOOSE k \in 1..Len(children) : children[k].char = char]

\* Map.set: an existing key keeps its place, a new key goes last.
set(children, char, child) ==
    IF has(children, char)
    THEN [k \in 1..Len(children) |-> IF children[k].char = char THEN child ELSE children[k]]
    ELSE Append(children, child)

\* A Map.delete that empties the map.
remove_clear(children, char) == <<>>

\* A Map.delete that removes the entry added last, whatever its key.
remove_last(children, char) == SubSeq(children, 1, Len(children) - 1)

\* Map.delete
remove(children, char) == SelectSeq(children, LAMBDA ch : ch.char # char)

\* The loop of Trie.insert from character i on, and the end-of-word marking:
\* the node as left by it, this.nodeCount and this.wordCount.
RECURSIVE Trie_insertFrom(_, _, _, _, _)
Trie_insertFrom(currentNode, word, i, c, w) ==
    IF i > Len(word) THEN
        IF ~currentNode.isEndOfWord
        THEN [n |-> [currentNode EXCEPT !.isEndOfWord = TRUE], c |-> c, w |-> w + 1]
        ELSE [n |-> currentNode, c |-> c, w |-> w]
    ELSE LET char  == word[i]
             isNew == ~has(currentNode.children, char)
             child == IF isNew THEN TrieNode(char) ELSE get(currentNode.children, char)
             r     == Trie_insertFrom(child, word, i + 1, IF isNew THEN c + 1 ELSE c, w)
         IN  [n |-> [currentNode EXCEPT !.children = set(@, char, r.n)], c |-> r.c, w |-> r.w]

\* The loop of Trie.search from character i on.
RECURSIVE Trie_searchFrom(_, _, _)
Trie_searchFrom(currentNode, word, i) ==
    IF i > Len(word) THEN (IF currentNode.isEndOfWord THEN currentNode ELSE null)
    ELSE IF ~has(currentNode.children, word[i]) THEN null
    ELSE Trie_searchFrom(get(currentNode.children, word[i]), word, i + 1)

\* _deleteWord: the node as left by it, this.nodeCount, and the returned flag.
\* `index` counts the characters consumed so far, as in the source.
RECURSIVE deleteWord(_, _, _, _)
deleteWord(node, word, index, c) ==
    IF index = Len(word) THEN
        IF ~node.isEndOfWord THEN [n |-> node, c |-> c, r |-> FALSE]
        ELSE [n |-> [node EXCEPT !.isEndOfWord = FALSE], c |-> c,
              r |-> Len(node.children) = 0]
    ELSE LET char == word[index + 1]
         IN  IF ~has(node.children, char) THEN [n |-> node, c |-> c, r |-> FALSE]
             ELSE LET sub == deleteWord(get(node.children, char), word, index + 1, c)
                  IN  IF sub.r
                      THEN LET kept == remove(node.children, char)
                           IN  [n |-> [node EXCEPT !.children = kept], c |-> sub.c - 1,
                                r |-> Len(kept) = 0 /\ ~node.isEndOfWord]
                      ELSE [n |-> [node EXCEPT !.children = set(@, char, sub.n)],
                            c |-> sub.c, r |-> FALSE]

\* _collectWords: the words pushed for the subtree of `node`, in order.
RECURSIVE collectWords(_, _)
collectWords(node, prefix) ==
    LET RECURSIVE fromChild(_)
        fromChild(k) ==
            IF k > Len(node.children) THEN <<>>
            ELSE collectWords(node.children[k], Append(prefix, node.children[k].char))
                 \o fromChild(k + 1)
    IN  (IF node.isEndOfWord THEN <<prefix>> ELSE <<>>) \o fromChild(1)

getAllWords(r) == collectWords(r, <<>>)

(***************************************************************************)
(* Fenwick tree.  `tree` is the function from the JavaScript index to the  *)
(* slot's value; its length is the size of its domain.                     *)
(***************************************************************************)
length(t) == Cardinality(DOMAIN t)

push(t, x) == [i \in 0..length(t) |-> IF i < length(t) THEN t[i] ELSE x]

\* index & (-index) for index > 0: the lowest set bit.
RECURSIVE lowbit(_)
lowbit(index) == IF index % 2 = 1 THEN 1 ELSE 2 * lowbit(index \div 2)

RECURSIVE updateBIT(_, _, _)
updateBIT(t, index, delta) ==
    IF index < length(t)
    THEN updateBIT([t EXCEPT ![index] = @ + delta], index + lowbit(index), delta)
    ELSE t

RECURSIVE query(_, _)
query(t, index) ==
    IF index > 0 THEN t[index] + query(t, index - lowbit(index)) ELSE 0

\* buildVisualTree: the node of BIT index i with the nodes attached below it.
RECURSIVE FenwickNode(_, _, _)
FenwickNode(t, d, i) ==
    LET n    == Len(d)
        kids == {j \in 1..n : j + lowbit(j) = i}
        RECURSIVE inOrder(_)
        inOrder(j) == IF j > n THEN <<>>
                      ELSE (IF j \in kids THEN <<setParent(FenwickNode(t, d, j), i)>> ELSE <<>>)
                           \o inOrder(j + 1)
    IN  [id |-> i, value |-> t[i], originalValue |-> d[i], index |-> i,
         left |-> null, right |-> null, parent |-> NoRef, children |-> inOrder(1)]

buildVisualTree(t, d) ==
    IF Len(d) = 0 THEN null
    ELSE LET n == Len(d)
             RECURSIVE tops(_)
             tops(j) == IF j > n THEN <<>>
                        ELSE (IF j + lowbit(j) > n
                              THEN <<setParent(FenwickNode(t, d, j), n + 1)>> ELSE <<>>)
                             \o tops(j + 1)
         IN  [id |-> n + 1, value |-> "Root", isVirtual |-> TRUE,
              left |-> null, right |-> null, parent |-> NoRef, children |-> tops(1)]

(***************************************************************************)
(* Segment tree.  The node built for a range is named by its place in the  *)
(* tree: 1 for the root, 2n and 2n + 1 for the children of node n.         *)
(***************************************************************************)
SegmentNode(id, value, start, end, left, right) ==
    [id |-> id, value |-> value, left |-> left, right |-> right,
     height |-> 1, color |-> "RED", parent |-> NoRef, start |-> start, end |-> end]

RECURSIVE buildRecursive(_, _, _, _)
buildRecursive(d, start, end, id) ==
    IF start = end THEN SegmentNode(id, at(d, start), start, end, null, null)
    ELSE LET mid   == (start + end) \div 2
             left  == buildRecursive(d, start, mid, 2 * id)
             right == buildRecursive(d, mid + 1, end, 2 * id + 1)
         IN  SegmentNode(id, left.value + right.value, start, end,
                         setParent(left, id), setParent(right, id))

buildTree(d) == IF Len(d) = 0 THEN null ELSE buildRecursive(d, 0, Len(d) - 1, 1)

\* An update that leaves the sums of the nodes above the leaf as they were.
RECURSIVE updateRecursive_leafOnly(_, _, _)
updateRecursive_leafOnly(node, index, newValue) ==
    IF node = null THEN node
    ELSE IF node.start = node.end THEN [node EXCEPT !.value = newValue]
    ELSE LET mid == (node.start + node.end) \div 2
         IN  IF index <= mid
             THEN [node EXCEPT !.left = updateRecursive_leafOnly(node.left, index, newValue)]
             ELSE [node EXCEPT !.right = updateRecursive_leafOnly(node.right, index, newValue)]

RECURSIVE updateRecursive(_, _, _)
updateRecursive(node, index, newValue) ==
    IF node = null THEN node
    ELSE IF node.start = node.end THEN [node EXCEPT !.value = newValue]
    ELSE LET mid == (node.start + node.end) \div 2
             walked == IF index <= mid
                       THEN [node EXCEPT !.left = updateRecursive(node.left, index, newValue)]
                       ELSE [node EXCEPT !.right = updateRecursive(node.right, index, newValue)]
         IN  [walked EXCEPT !.value = walked.left.value + walked.right.value]

(***************************************************************************)
(* B-Tree and B+ Tree.  keys and children are JavaScript arrays; a node is *)
(* named by the order of its creation (nodes are never removed).           *)
(***************************************************************************)
\* arr[i] of a keys array: undefined outside the array.
read(arr, i) == IF 0 <= i /\ i < Len(arr) THEN arr[i + 1] ELSE undefinedKey

\* arr[i] of a children array: nothing (falsy) outside the array.
readChild(arr, i) == IF 0 <= i /\ i < Len(arr) THEN arr[i + 1] ELSE null

\* arr[i] = v
jsSet(arr, i, v) ==
    [k \in 1..Max(Len(arr), i + 1) |->
        IF k = i + 1 THEN v ELSE IF k <= Len(arr) THEN arr[k] ELSE undefinedKey]

\* arr.length = n
truncate(arr, n) == [k \in 1..n |-> IF k <= Len(arr) THEN arr[k] ELSE undefinedKey]

\* A children array that is left at its length.
truncateChildren_keep(arr, n) == arr

truncateChildren(arr, n) == [k \in 1..n |-> IF k <= Len(arr) THEN arr[k] ELSE null]

\* for (j = arr.length; j > i; j--) arr[j] = arr[j - 1];  arr[i] = v
insertAt(arr, i, v) == SubSeq(arr, 1, i) \o <<v>> \o SubSeq(arr, i + 1, Len(arr))

BTreeNode(id, leaf) ==
    [id |-> id, keys |-> <<>>, children |-> <<>>, isLeaf |-> leaf, parent |-> NoRef]

BPlusTreeNode(id, leaf) ==
    [id |-> id, keys |-> <<>>, children |-> <<>>, isLeaf |-> leaf, parent |-> NoRef,
     next |-> NoRef]

\* The nodes of a B-Tree or B+ Tree.
RECURSIVE BNodes(_)
BNodes(node) ==
    IF node = null THEN {}
    ELSE {node} \cup UNION {BNodes(node.children[k]) : k \in 1..Len(node.children)}

\* while (i >= 0 && value < keys[i]) i--
RECURSIVE scanDown(_, _, _)
scanDown(keys, value, i) ==
    IF i >= 0 /\ lt(value, read(keys, i)) THEN scanDown(keys, value, i - 1) ELSE i

\* while (i < keys.length && value > keys[i]) i++
RECURSIVE scanUp(_, _, _)
scanUp(keys, value, i) ==
    IF i < Len(keys) /\ gt(value, read(keys, i)) THEN scanUp(keys, value, i + 1) ELSE i

\* ---- BTree
RECURSIVE BTree_searchNode(_, _)
BTree_searchNode(node, value) ==
    LET i == scanUp(node.keys, value, 0)
    IN  IF i < Len(node.keys) /\ value = read(node.keys, i) THEN [node |-> node, index |-> i]
        ELSE IF node.isLeaf THEN null
        ELSE BTree_searchNode(node.children[i + 1], value)

\* A split that moves one key too few to the new node.
BTree_splitChild_shortRight(x, i, zid) ==
    LET y  == x.children[i + 1]
        z  == [BTreeNode(zid, y.isLeaf) EXCEPT
                  !.parent = x.id,
                  !.keys = [j \in 1..(degree - 2) |-> read(y.keys, j - 1 + degree)],
                  !.children = IF y.isLeaf THEN <<>>
                               ELSE [j \in 1..degree |->
                                        setParent(readChild(y.children, j - 1 + degree), zid)]]
        y2 == [y EXCEPT !.keys = truncate(@, degree - 1),
                        !.children = IF y.isLeaf THEN <<>> ELSE truncateChildren(@, degree)]
    IN  [x EXCEPT !.children = insertAt([@ EXCEPT ![i + 1] = y2], i + 1, z),
                  !.keys = insertAt(@, i, read(y2.keys, degree - 1))]

\* _splitChild(x, i); z is the node it creates, named zid.
BTree_splitChild(x, i, zid) ==
    LET y  == x.children[i + 1]
        z  == [BTreeNode(zid, y.isLeaf) EXCEPT
                  !.parent = x.id,
                  !.keys = [j \in 1..(degree - 1) |-> read(y.keys, j - 1 + degree)],
                  !.children = IF y.isLeaf THEN <<>>
                               ELSE [j \in 1..degree |->
                                        setParent(readChild(y.children, j - 1 + degree), zid)]]
        y2 == [y EXCEPT !.keys = truncate(@, degree - 1),
                        !.children = IF y.isLeaf THEN <<>> ELSE truncateChildren(@, degree)]
    IN  [x EXCEPT !.children = insertAt([@ EXCEPT ![i + 1] = y2], i + 1, z),
                  !.keys = insertAt(@, i, read(y2.keys, degree - 1))]

\* _insertNonFull(x, value): the node as left by it and the number of nodes
\* created so far (c on entry).
RECURSIVE BTree_insertNonFull(_, _, _)
BTree_insertNonFull(x, value, c) ==
    IF x.isLeaf
    THEN LET i == scanDown(x.keys, value, Len(x.keys) - 1)
         IN  [n |-> [x EXCEPT !.keys = insertAt(@, i + 1, value)], c |-> c]
    ELSE LET i1    == scanDown(x.keys, value, Len(x.keys) - 1) + 1
             full  == Len(x.children[i1 + 1].keys) = 2 * degree - 1
             x2    == IF full THEN BTree_splitChild(x, i1, c + 1) ELSE x
             c2    == IF full THEN c + 1 ELSE c
             i2    == IF full /\ gt(value, read(x2.keys, i1)) THEN i1 + 1 ELSE i1
             r     == BTree_insertNonFull(x2.children[i2 + 1], value, c2)
         IN  [n |-> [x2 EXCEPT !.children[i2 + 1] = r.n], c |-> r.c]

\* ---- BPlusTree
RECURSIVE BPlus_searchNode(_, _)
BPlus_searchNode(node, value) ==
    LET i == scanUp(node.keys, value, 0)
    IN  IF node.isLeaf
        THEN (IF i < Len(node.keys) /\ value = read(node.keys, i)
              THEN [node |-> node, index |-> i] ELSE null)
        ELSE IF i < Len(node.keys) /\ value = read(node.keys, i)
        THEN BPlus_searchNode(node.children[i + 2], value)
        ELSE BPlus_searchNode(node.children[i + 1], value)

\* for (j = 0; j < t; j++) if (pivotIndex + j < y.keys.length) z.keys[j] = y.keys[pivotIndex + j]
RECURSIVE moveFromPivot(_, _, _)
moveFromPivot(zkeys, ykeys, j) ==
    IF j >= degree THEN zkeys
    ELSE moveFromPivot(IF degree - 1 + j < Len(ykeys)
                       THEN jsSet(zkeys, j, read(ykeys, degree - 1 + j)) ELSE zkeys,
                       ykeys, j + 1)

\* A leaf split that does not hand the old next reference to the new leaf.
BPlus_splitChild_unlinked(x, index, zid) ==
    LET y == x.children[index + 1]
    IN  IF y.isLeaf
        THEN LET zk1 == [j \in 1..(degree - 1) |-> read(y.keys, j - 1 + degree)]
                 yk1 == truncate(y.keys, degree)
                 zk2 == moveFromPivot(zk1, yk1, 0)
                 z   == [BPlusTreeNode(zid, TRUE) EXCEPT
                            !.parent = x.id, !.keys = zk2, !.next = NoRef]
                 y2  == [y EXCEPT !.next = zid, !.keys = truncate(yk1, degree - 1)]
             IN  [x EXCEPT !.children = insertAt([@ EXCEPT ![index + 1] = y2], index + 1, z),
                           !.keys = insertAt(@, index, read(z.keys, 0))]
        ELSE LET z  == [BPlusTreeNode(zid, FALSE) EXCEPT
                           !.parent = x.id,
                           !.keys = [j \in 1..(degree - 1) |-> read(y.keys, j - 1 + degree)],
                           !.children = [j \in 1..degree |->
                                            setParent(readChild(y.children, j - 1 + degree), zid)]]
                 y2 == [y EXCEPT !.keys = truncate(@, degree - 1),
                                 !.children = truncateChildren(@, degree)]
             IN  [x EXCEPT !.children = insertAt([@ EXCEPT ![index + 1] = y2], index + 1, z),
                           !.keys = insertAt(@, index, read(y2.keys, degree - 1))]

BPlus_splitChild(x, index, zid) ==
    LET y == x.children[index + 1]
    IN  IF y.isLeaf
        THEN LET zk1 == [j \in 1..(degree - 1) |-> read(y.keys, j - 1 + degree)]
                 yk1 == truncate(y.keys, degree)
                 zk2 == moveFromPivot(zk1, yk1, 0)
                 z   == [BPlusTreeNode(zid, TRUE) EXCEPT
                            !.parent = x.id, !.keys = zk2, !.next = y.next]
                 y2  == [y EXCEPT !.next = zid, !.keys = truncate(yk1, degree - 1)]
             IN  [x EXCEPT !.children = insertAt([@ EXCEPT ![index + 1] = y2], index + 1, z),
                           !.keys = insertAt(@, index, read(z.keys, 0))]
        ELSE LET z  == [BPlusTreeNode(zid, FALSE) EXCEPT
                           !.parent = x.id,
                           !.keys = [j \in 1..(degree - 1) |-> read(y.keys, j - 1 + degree)],
                           !.children = [j \in 1..degree |->
                                            setParent(readChild(y.children, j - 1 + degree), zid)]]
                 y2 == [y EXCEPT !.keys = truncate(@, degree - 1),
                                 !.children = truncateChildren(@, degree)]
             IN  [x EXCEPT !.children = insertAt([@ EXCEPT ![index + 1] = y2], index + 1, z),
                           !.keys = insertAt(@, index, read(y2.keys, degree - 1))]

RECURSIVE BPlus_insertNonFull(_, _, _)
BPlus_insertNonFull(x, value, c) ==
    IF x.isLeaf
    THEN LET i == scanDown(x.keys, value, Len(x.keys) - 1)
         IN  [n |-> [x EXCEPT !.keys = insertAt(@, i + 1, value)], c |-> c]
    ELSE LET i1    == scanDown(x.keys, value, Len(x.keys) - 1) + 1
             full  == Len(x.children[i1 + 1].keys) = 2 * degree - 1
             x2    == IF full THEN BPlus_splitChild(x, i1, c + 1) ELSE x
             c2    == IF full THEN c + 1 ELSE c
             i2    == IF full /\ (gt(value, read(x2.keys, i1)) \/ value = read(x2.keys, i1))
                      THEN i1 + 1 ELSE i1
             r     == BPlus_insertNonFull(x2.children[i2 + 1], value, c2)
         IN  [n |-> [x2 EXCEPT !.children[i2 + 1] = r.n], c |-> r.c]

\* inorderTraversal: the key of each callback, from the leftmost leaf along next.
RECURSIVE leftmostLeaf(_)
leftmostLeaf(node) == IF node.isLeaf THEN node ELSE leftmostLeaf(node.children[1])

RECURSIVE alongNext(_, _, _)
alongNext(r, id, fuel) ==
    IF id = NoRef \/ fuel = 0 THEN <<>>
    ELSE LET node == CHOOSE n \in BNodes(r) : n.id = id
         IN  node.keys \o alongNext(r, node.next, fuel - 1)

BPlus_inorderKeys(r) ==
    IF r = null THEN <<>> ELSE alongNext(r, leftmostLeaf(r).id, Cardinality(BNodes(r)))

(***************************************************************************)
(* The public operations                                                   *)
(***************************************************************************)
NODE_INSERTED == "tree:node:inserted"
NODE_DELETED  == "tree:node:deleted"
NODE_SEARCHED == "tree:node:searched"
TREE_RESET    == "tree:reset"

Event(name, value) == [event |-> name, value |-> value]

Call(op, arg) == [op |-> op, arg |-> arg]

heapVars    == <<array>>
trieVars    == <<wordCount>>
fenwickVars == <<data, tree>>
\* The animation log. The steps that the operations of the structures record
\* are not modelled: the log is modelled for the TreeBase methods that
\* append to it, drain it and clear it, and for TreeBase.clear.
animVars    == <<arrays, animationSteps, steps>>
busVars     == <<events, invoked>>

\* ---- BSTTree
BSTInsert(value) ==
    /\ kind = "BST"
    /\ IF root = null
       THEN /\ root' = TreeNode(value, value)
            /\ nodeCount' = nodeCount + 1
       ELSE LET r == BST_insertNode(root, value, nodeCount, value)
            IN  root' = r.n /\ nodeCount' = r.c
    /\ emitted' = <<Event(NODE_INSERTED, value)>>
    /\ call' = Call("insert", value)
    /\ ret' = undefined
    /\ present' = present \cup {value}
    /\ UNCHANGED <<kind, degree, animVars, busVars, heapVars, trieVars, fenwickVars>>

BSTSearch(value) ==
    /\ kind = "BST"
    /\ LET result == BST_searchNode(root, value)
       IN  /\ emitted' = <<[event |-> NODE_SEARCHED, value |-> value, found |-> result # null]>>
           /\ ret' = result
    /\ call' = Call("search", value)
    /\ UNCHANGED <<kind, degree, animVars, busVars, root, nodeCount, heapVars, trieVars, fenwickVars, present>>

BSTDelete(value) ==
    /\ kind = "BST"
    /\ LET r == BST_deleteNode(root, value, nodeCount)
           deleted == r.c < nodeCount
       IN  /\ root' = CanonicalNames(r.n)
           /\ nodeCount' = r.c
           /\ emitted' = IF deleted THEN <<Event(NODE_DELETED, value)>> ELSE <<>>
           /\ ret' = deleted
    /\ call' = Call("delete", value)
    /\ present' = present \ {value}
    /\ UNCHANGED <<kind, degree, animVars, busVars, heapVars, trieVars, fenwickVars>>

\* An event published without a value carries undefinedKey.
BSTBalance ==
    /\ kind = "BST"
    /\ LET nodes == inorderNodes(root)
       IN  IF Len(nodes) <= 2
           THEN root' = root /\ emitted' = <<>>
           ELSE /\ root' = buildBalancedTree(nodes, 0, Len(nodes) - 1)
                /\ emitted' = <<Event(TREE_RESET, undefinedKey)>>
    /\ call' = Call("balance", undefined)
    /\ ret' = undefined
    /\ UNCHANGED <<kind, degree, animVars, busVars, nodeCount, heapVars, trieVars, fenwickVars, present>>

\* ---- AVLTree
\* The tree built by DeepInserts (the only one to hold a value above
\* MaxInsertVal) is explored by deletes only, down to DeepOps nodes below its 12.
Deep == \E v \in Range(inorder(root)) : v > MaxInsertVal

AVLInsert(value) ==
    /\ kind = "AVL"
    /\ ~Deep
    /\ LET r == AVL_insertNode(root, value, nodeCount, value)
       IN  root' = r.n /\ nodeCount' = r.c
    /\ emitted' = <<Event(NODE_INSERTED, value)>>
    /\ call' = Call("insert", value)
    /\ ret' = undefined
    /\ present' = present \cup {value}
    /\ UNCHANGED <<kind, degree, animVars, busVars, heapVars, trieVars, fenwickVars>>

AVLDelete(value) ==
    /\ kind = "AVL"
    /\ ~Deep \/ nodeCount > Len(DeepInserts) - DeepOps
    /\ LET r == AVL_deleteNode(root, value, nodeCount)
           deleted == r.c < nodeCount
       IN  /\ root' = CanonicalNames(r.n)
           /\ nodeCount' = r.c
           /\ emitted' = IF deleted THEN <<Event(NODE_DELETED, value)>> ELSE <<>>
           /\ ret' = deleted
    /\ call' = Call("delete", value)
    /\ present' = present \ {value}
    /\ UNCHANGED <<kind, degree, animVars, busVars, heapVars, trieVars, fenwickVars>>

AVLSearch(value) ==
    /\ kind = "AVL"
    /\ LET result == AVL_searchNode(root, value)
       IN  /\ emitted' = <<[event |-> NODE_SEARCHED, value |-> value, found |-> result # null]>>
           /\ ret' = result
    /\ call' = Call("search", value)
    /\ UNCHANGED <<kind, degree, animVars, busVars, root, nodeCount, heapVars, trieVars, fenwickVars, present>>

\* ---- RedBlackTree
RBInsert(value) ==
    /\ kind = "RedBlack"
    /\ LET r == RB_insertNode(root, value, nodeCount, value)
       IN  /\ root' = setColor(r.n, "BLACK")
           /\ nodeCount' = r.c
    /\ emitted' = <<Event(NODE_INSERTED, value)>>
    /\ call' = Call("insert", value)
    /\ ret' = undefined
    /\ present' = present \cup {value}
    /\ UNCHANGED <<kind, degree, animVars, busVars, heapVars, trieVars, fenwickVars>>

RBSearch(value) ==
    /\ kind = "RedBlack"
    /\ LET result == RB_searchNode(root, value)
       IN  /\ emitted' = <<[event |-> NODE_SEARCHED, value |-> value, found |-> result # null]>>
           /\ ret' = result
    /\ call' = Call("search", value)
    /\ UNCHANGED <<kind, degree, animVars, busVars, root, nodeCount, heapVars, trieVars, fenwickVars, present>>

RBDelete(value) ==
    /\ kind = "RedBlack"
    /\ LET r == simpleBSTDelete(root, value, nodeCount)
           deleted == r.c < nodeCount
       IN  /\ root' = CanonicalNames(IF deleted /\ r.n # null THEN setColor(r.n, "BLACK") ELSE r.n)
           /\ nodeCount' = r.c
           /\ emitted' = IF deleted /\ r.n # null THEN <<Event(NODE_DELETED, value)>> ELSE <<>>
           /\ ret' = deleted
    /\ call' = Call("delete", value)
    /\ present' = present \ {value}
    /\ UNCHANGED <<kind, degree, animVars, busVars, heapVars, trieVars, fenwickVars>>

\* ---- MinHeap
HeapInsert(value) ==
    /\ kind = "MinHeap"
    /\ Len(array) < MaxHeapLen
    /\ LET pushed == Append(array, value)
       IN  array' = heapifyUp(pushed, Len(pushed) - 1)
    /\ nodeCount' = nodeCount + 1
    /\ root' = buildTreeFromArray(array', 0)
    /\ emitted' = <<Event(NODE_INSERTED, value)>>
    /\ call' = Call("insert", value)
    /\ ret' = undefined
    /\ UNCHANGED <<kind, degree, animVars, busVars, trieVars, fenwickVars, present>>

HeapDelete ==
    /\ kind = "MinHeap"
    /\ call' = Call("delete", undefined)
    /\ IF Len(array) = 0
       THEN /\ ret' = FALSE
            /\ emitted' = <<>>
            /\ UNCHANGED <<array, nodeCount, root>>
       ELSE LET min    == at(array, 0)
                last   == array[Len(array)]
                popped == SubSeq(array, 1, Len(array) - 1)
            IN  /\ array' = IF Len(popped) > 0
                            THEN heapifyDown([popped EXCEPT ![1] = last], 0)
                            ELSE popped
                /\ nodeCount' = nodeCount - 1
                /\ root' = buildTreeFromArray(array', 0)
                /\ emitted' = <<Event(NODE_DELETED, min)>>
                /\ ret' = TRUE
    /\ UNCHANGED <<kind, degree, animVars, busVars, trieVars, fenwickVars, present>>

\* ---- Trie
\* The words given to the trie: a chain of prefixes (a, ab, aba), words that
\* share nothing with it (b, ba) and two spellings with a capital letter.
Words ==
    {<<"a">>, <<"a", "b">>, <<"a", "b", "a">>, <<"b">>, <<"b", "a">>,
     <<"A">>, <<"A", "b">>}

TrieInsert(input) ==
    /\ kind = "Trie"
    /\ wordCount < MaxWords
    /\ LET word == toLowerCase(input)
           r    == Trie_insertFrom(root, word, 1, nodeCount, wordCount)
       IN  IF Len(input) = 0
           THEN /\ emitted' = <<>>
                /\ ret' = undefined
                /\ UNCHANGED <<root, nodeCount, wordCount, present>>
           ELSE IF root = null
           THEN /\ emitted' = <<>>
                /\ ret' = TypeError
                /\ UNCHANGED <<root, nodeCount, wordCount, present>>
           ELSE /\ root' = r.n
                /\ nodeCount' = r.c
                /\ wordCount' = r.w
                /\ emitted' = <<Event(NODE_INSERTED, word)>>
                /\ ret' = undefined
                /\ present' = present \cup {input}
    /\ call' = Call("insert", input)
    /\ UNCHANGED <<kind, degree, animVars, busVars, heapVars, fenwickVars>>

TrieSearch(input) ==
    /\ kind = "Trie"
    /\ LET word  == toLowerCase(input)
           found == Trie_searchFrom(root, word, 1)
       IN  IF Len(input) = 0
           THEN emitted' = <<>> /\ ret' = null
           ELSE IF root = null
           THEN emitted' = <<>> /\ ret' = TypeError
           ELSE /\ emitted' = <<[event |-> NODE_SEARCHED, value |-> word,
                                 found |-> found # null]>>
                /\ ret' = found
    /\ call' = Call("search", input)
    /\ UNCHANGED <<kind, degree, animVars, busVars, root, nodeCount, heapVars, trieVars, fenwickVars, present>>

TrieDelete(input) ==
    /\ kind = "Trie"
    /\ LET word == toLowerCase(input)
           r    == deleteWord(root, word, 0, nodeCount)
       IN  IF Len(input) = 0
           THEN emitted' = <<>> /\ ret' = FALSE /\ UNCHANGED <<root, nodeCount, wordCount>>
           ELSE IF root = null
           THEN emitted' = <<>> /\ ret' = TypeError /\ UNCHANGED <<root, nodeCount, wordCount>>
           ELSE /\ root' = r.n
                /\ nodeCount' = r.c
                /\ wordCount' = IF r.r THEN wordCount - 1 ELSE wordCount
                /\ emitted' = IF r.r THEN <<Event(NODE_DELETED, word)>> ELSE <<>>
                /\ ret' = r.r
    /\ call' = Call("delete", input)
    /\ present' = {w \in present : toLowerCase(w) # toLowerCase(input)}
    /\ UNCHANGED <<kind, degree, animVars, busVars, heapVars, fenwickVars>>

\* ---- FenwickTree
FenwickValues == {-1, 1, 2}

FenwickInsert(value) ==
    /\ kind = "Fenwick"
    /\ Len(data) < MaxData
    /\ LET numVal == parseInt(value)
           index  == Len(data) + 1
           grown  == IF length(tree) <= index THEN push(tree, 0) ELSE tree
       IN  IF isNaN(numVal)
           THEN UNCHANGED <<data, tree, nodeCount, root>>
           ELSE /\ data' = Append(data, numVal)
                /\ tree' = updateBIT(grown, index, numVal)
                /\ nodeCount' = nodeCount + 1
                /\ root' = buildVisualTree(tree', data')
    /\ emitted' = <<>>
    /\ call' = Call("insert", value)
    /\ ret' = undefined
    /\ UNCHANGED <<kind, degree, animVars, busVars, heapVars, trieVars, present>>

FenwickQuery(index) ==
    /\ kind = "Fenwick"
    /\ index \in 1..Len(data)
    /\ ret' = query(tree, index)
    /\ call' = Call("query", index)
    /\ UNCHANGED <<kind, degree, animVars, busVars, root, nodeCount, heapVars, trieVars, fenwickVars, emitted, present>>

FenwickDelete(value) ==
    /\ kind = "Fenwick"
    /\ ret' = FALSE
    /\ emitted' = <<>>
    /\ call' = Call("delete", value)
    /\ UNCHANGED <<kind, degree, animVars, busVars, root, nodeCount, heapVars, trieVars, fenwickVars, present>>

\* ---- SegmentTree
\* An insert that appends to data without rebuilding the tree.
SegmentInsert_noRebuild(value) ==
    /\ kind = "Segment"
    /\ Len(data) < MaxData
    /\ LET numVal == parseInt(value)
       IN  IF isNaN(numVal)
           THEN UNCHANGED <<data, nodeCount, root>>
           ELSE /\ data' = Append(data, numVal)
                /\ nodeCount' = Len(data')
                /\ root' = root
    /\ emitted' = <<>>
    /\ call' = Call("insert", value)
    /\ ret' = undefined
    /\ UNCHANGED <<kind, degree, animVars, busVars, tree, heapVars, trieVars, present>>

SegmentInsert(value) ==
    /\ kind = "Segment"
    /\ Len(data) < MaxData
    /\ LET numVal == parseInt(value)
       IN  IF isNaN(numVal)
           THEN UNCHANGED <<data, nodeCount, root>>
           ELSE /\ data' = Append(data, numVal)
                /\ nodeCount' = Len(data')
                /\ root' = buildTree(data')
    /\ emitted' = <<>>
    /\ call' = Call("insert", value)
    /\ ret' = undefined
    /\ UNCHANGED <<kind, degree, animVars, busVars, tree, heapVars, trieVars, present>>

SegmentUpdate(index, newValue) ==
    /\ kind = "Segment"
    /\ IF index < 0 \/ index >= Len(data)
       THEN UNCHANGED <<data, root>>
       ELSE /\ data' = [data EXCEPT ![index + 1] = newValue]
            /\ root' = updateRecursive(root, index, newValue)
    /\ emitted' = <<>>
    /\ call' = Call("update", <<index, newValue>>)
    /\ ret' = undefined
    /\ UNCHANGED <<kind, degree, animVars, busVars, nodeCount, tree, heapVars, trieVars, present>>

\* A delete that removes the first occurrence of the value from the data.
SegmentDelete_removes(value) ==
    /\ kind = "Segment"
    /\ LET hits == {k \in 1..Len(data) : data[k] = value}
           k0   == CHOOSE k \in hits : \A j \in hits : k <= j
       IN  IF hits = {}
           THEN ret' = FALSE /\ UNCHANGED <<data, root, nodeCount>>
           ELSE /\ ret' = TRUE
                /\ data' = SubSeq(data, 1, k0 - 1) \o SubSeq(data, k0 + 1, Len(data))
                /\ root' = buildTree(data')
                /\ nodeCount' = Len(data')
    /\ emitted' = <<>>
    /\ call' = Call("delete", value)
    /\ UNCHANGED <<kind, degree, animVars, busVars, heapVars, trieVars, tree, present>>

SegmentDelete(value) ==
    /\ kind = "Segment"
    /\ ret' = FALSE
    /\ emitted' = <<>>
    /\ call' = Call("delete", value)
    /\ UNCHANGED <<kind, degree, animVars, busVars, root, nodeCount, heapVars, trieVars, fenwickVars, present>>

\* ---- BTree
BTreeInsert(value) ==
    /\ kind = "BTree"
    /\ nodeCount < MaxInserts
    /\ LET c == Cardinality(BNodes(root))
       IN  IF root = null
           THEN root' = [BTreeNode(1, TRUE) EXCEPT !.keys = <<value>>]
           ELSE IF Len(root.keys) = 2 * degree - 1
           THEN LET s == [BTreeNode(c + 1, FALSE) EXCEPT
                             !.children = <<setParent(root, c + 1)>>]
                IN  root' = BTree_insertNonFull(BTree_splitChild(s, 0, c + 2), value, c + 2).n
           ELSE root' = BTree_insertNonFull(root, value, c).n
    /\ nodeCount' = nodeCount + 1
    /\ emitted' = <<>>
    /\ call' = Call("insert", value)
    /\ ret' = undefined
    /\ present' = [present EXCEPT ![value] = @ + 1]
    /\ UNCHANGED <<kind, degree, animVars, busVars, heapVars, trieVars, fenwickVars>>

BTreeSearch(value) ==
    /\ kind = "BTree"
    /\ ret' = IF root = null THEN null ELSE BTree_searchNode(root, value)
    /\ emitted' = <<>>
    /\ call' = Call("search", value)
    /\ UNCHANGED <<kind, degree, animVars, busVars, root, nodeCount, heapVars, trieVars, fenwickVars, present>>

BTreeDelete(value) ==
    /\ kind = "BTree"
    /\ ret' = FALSE
    /\ emitted' = <<>>
    /\ call' = Call("delete", value)
    /\ UNCHANGED <<kind, degree, animVars, busVars, root, nodeCount, heapVars, trieVars, fenwickVars, present>>

\* ---- BPlusTree
BPlusInsert(value) ==
    /\ kind = "BPlus"
    /\ nodeCount < MaxInserts
    /\ LET c == Cardinality(BNodes(root))
       IN  IF root = null
           THEN root' = [BPlusTreeNode(1, TRUE) EXCEPT !.keys = <<value>>]
           ELSE IF Len(root.keys) = 2 * degree - 1
           THEN LET s == [BPlusTreeNode(c + 1, FALSE) EXCEPT
                             !.children = <<setParent(root, c + 1)>>]
                IN  root' = BPlus_insertNonFull(BPlus_splitChild(s, 0, c + 2), value, c + 2).n
           ELSE root' = BPlus_insertNonFull(root, value, c).n
    /\ nodeCount' = nodeCount + 1
    /\ emitted' = <<>>
    /\ call' = Call("insert", value)
    /\ ret' = undefined
    /\ present' = [present EXCEPT ![value] = @ + 1]
    /\ UNCHANGED <<kind, degree, animVars, busVars, heapVars, trieVars, fenwickVars>>

BPlusSearch(value) ==
    /\ kind = "BPlus"
    /\ ret' = IF root = null THEN null ELSE BPlus_searchNode(root, value)
    /\ emitted' = <<>>
    /\ call' = Call("search", value)
    /\ UNCHANGED <<kind, degree, animVars, busVars, root, nodeCount, heapVars, trieVars, fenwickVars, present>>

BPlusDelete(value) ==
    /\ kind = "BPlus"
    /\ ret' = FALSE
    /\ emitted' = <<>>
    /\ call' = Call("delete", value)
    /\ UNCHANGED <<kind, degree, animVars, busVars, root, nodeCount, heapVars, trieVars, fenwickVars, present>>

\* ---- TreeBase: the animation log
\* Array objects are named 1, 2, 3; a new array gets a name that no live
\* reference holds, and an array that nothing refers to any more is dropped.
Alloc(used) == CHOOSE a \in ArrayIds : a \notin used

Live(arrs, refs) == [a \in ArrayIds |-> IF a \in refs THEN arrs[a] ELSE <<>>]

\* { action, data, timestamp }: the action alone is kept.
Step(action) == [action |-> action]

\* [...arr]
spread(arr) == [i \in 1..Len(arr) |-> arr[i]]

\* _addAnimationStep(action, data): push onto the array the field refers to.
AddAnimationStep(action) ==
    /\ Len(arrays[animationSteps]) < MaxSteps
    /\ arrays' = [arrays EXCEPT ![animationSteps] = Append(@, Step(action))]
    /\ call' = Call("_addAnimationStep", action)
    /\ ret' = undefined
    /\ emitted' = <<>>
    /\ UNCHANGED <<kind, degree, busVars, root, nodeCount, heapVars, trieVars, fenwickVars,
                   animationSteps, steps, present>>

\* A drain that hands out the log array itself and empties it in place.
GetAnimationSteps_sameArray(kept) ==
    /\ arrays' = [arrays EXCEPT ![animationSteps] = <<>>]
    /\ steps' = (IF kept THEN animationSteps ELSE steps)
    /\ ret' = arrays[animationSteps]
    /\ call' = Call("getAnimationSteps", undefined)
    /\ emitted' = <<>>
    /\ UNCHANGED <<kind, degree, busVars, root, nodeCount, heapVars, trieVars, fenwickVars,
                   animationSteps, present>>

\* getAnimationSteps(): the caller keeps the returned array (kept) or drops it.
GetAnimationSteps(kept) ==
    /\ LET copy  == Alloc({animationSteps, steps})
           fresh == Alloc({steps, copy})
           held  == IF kept THEN copy ELSE steps
       IN  /\ animationSteps' = fresh
           /\ steps' = held
           /\ arrays' = Live([arrays EXCEPT ![copy] = spread(arrays[animationSteps]),
                                            ![fresh] = <<>>],
                             {fresh, held})
           /\ ret' = spread(arrays[animationSteps])
    /\ call' = Call("getAnimationSteps", undefined)
    /\ emitted' = <<>>
    /\ UNCHANGED <<kind, degree, busVars, root, nodeCount, heapVars, trieVars, fenwickVars, present>>

\* clearAnimationSteps(): this.animationSteps = []
ClearAnimationSteps ==
    /\ LET fresh == Alloc({steps})
       IN  /\ animationSteps' = fresh
           /\ arrays' = Live([arrays EXCEPT ![fresh] = <<>>], {fresh, steps})
    /\ call' = Call("clearAnimationSteps", undefined)
    /\ ret' = undefined
    /\ emitted' = <<>>
    /\ UNCHANGED <<kind, degree, busVars, root, nodeCount, heapVars, trieVars, fenwickVars,
                   steps, present>>

\* ---- TreeBase.clear and its overrides in MinHeap and Trie
Clear ==
    /\ root' = null
    /\ nodeCount' = 0
    /\ array' = (IF kind = "MinHeap" THEN <<>> ELSE array)
    /\ wordCount' = (IF kind = "Trie" THEN 0 ELSE wordCount)
    /\ emitted' = <<Event(TREE_RESET, undefinedKey)>>
    /\ call' = Call("clear", undefined)
    /\ ret' = undefined
    /\ present' = (IF kind \in {"BTree", "BPlus"} THEN [v \in DOMAIN present |-> 0] ELSE {})
    /\ LET fresh == Alloc({steps})
       IN  /\ animationSteps' = fresh
           /\ arrays' = Live([arrays EXCEPT ![fresh] = <<>>], {fresh, steps})
    /\ UNCHANGED <<kind, degree, busVars, steps, fenwickVars>>

(***************************************************************************)
(* Specifications: a freshly constructed instance of one class, then any   *)
(* sequence of calls.                                                      *)
(***************************************************************************)
New(k) ==
    /\ kind = k
    /\ root = (IF k = "Trie" THEN TrieNode("ROOT") ELSE null)
    /\ nodeCount = 0
    /\ array = <<>>
    /\ wordCount = 0
    /\ data = <<>>
    /\ tree = [i \in {0} |-> 0]
    /\ degree = 2
    /\ call = Call("new", undefined)
    /\ ret = undefined
    /\ emitted = <<>>
    /\ arrays = [a \in ArrayIds |-> <<>>]
    /\ animationSteps = 1
    /\ steps = NoRef
    /\ events = [name \in EventNames |-> <<>>]
    /\ invoked = <<>>
    /\ present = {}

BinaryKinds == {"BST", "AVL", "RedBlack"}

InitBinary == \E k \in BinaryKinds : New(k)

\* An AVL tree after the calls insert(DeepInserts[1]), ..., insert(DeepInserts[12]).
InitDeepAVL ==
    LET built == AVL_inserted(Len(DeepInserts))
    IN  /\ kind = "AVL"
        /\ root = built.n
        /\ nodeCount = built.c
        /\ array = <<>>
        /\ wordCount = 0
        /\ data = <<>>
        /\ tree = [i \in {0} |-> 0]
        /\ degree = 2
        /\ call = Call("insert", DeepInserts[Len(DeepInserts)])
        /\ ret = undefined
        /\ emitted = <<Event(NODE_INSERTED, DeepInserts[Len(DeepInserts)])>>
        /\ arrays = [a \in ArrayIds |-> <<>>]
        /\ animationSteps = 1
        /\ steps = NoRef
        /\ events = [name \in EventNames |-> <<>>]
        /\ invoked = <<>>
        /\ present = {DeepInserts[k] : k \in 1..Len(DeepInserts)}

DeepValues == 1..Len(DeepInserts)

NextBinaryInsert ==
    \E value \in 1..MaxInsertVal : BSTInsert(value) \/ AVLInsert(value) \/ RBInsert(value)

NextBinary ==
    \/ \E value \in Values :
           \/ BSTInsert(value) \/ BSTSearch(value) \/ BSTDelete(value)
           \/ AVLInsert(value)
           \/ RBInsert(value) \/ RBSearch(value) \/ RBDelete(value)
    \/ \E value \in Values \cup DeepValues : AVLDelete(value) \/ AVLSearch(value)

\* insert is the only operation called
SpecBinaryInsert == InitBinary /\ [][NextBinaryInsert]_vars

SpecBinary == (InitBinary \/ InitDeepAVL) /\ [][NextBinary]_vars

InitBST == New("BST")

NextBalance ==
    \/ \E value \in 1..MaxBalanced : BSTInsert(value) \/ BSTDelete(value)
    \/ BSTBalance

\* A BST with inserts, deletes and balance calls.
SpecBalance == InitBST /\ [][NextBalance]_vars

\* The recorded actions: the steps of a BST insert.
StepActions == {"compare", "insert"}

NextAnimation ==
    \/ \E action \in StepActions : AddAnimationStep(action)
    \/ \E kept \in BOOLEAN : GetAnimationSteps(kept)
    \/ ClearAnimationSteps
    \/ Clear

\* The animation log of an instance under any sequence of appends, drains
\* and clears.
SpecAnimation == InitBST /\ [][NextAnimation]_vars

InitHeap == New("MinHeap")

NextHeap == (\E value \in Values : HeapInsert(value)) \/ HeapDelete

SpecHeap == InitHeap /\ [][NextHeap]_vars

InitTrie == New("Trie")

NextTrie == \E input \in Words : TrieInsert(input) \/ TrieSearch(input) \/ TrieDelete(input)

SpecTrie == InitTrie /\ [][NextTrie]_vars

InitSegment == New("Segment")

NextSegment ==
    \/ \E value \in FenwickValues : SegmentInsert(value) \/ SegmentDelete(value)
    \/ \E index \in -1..MaxData, newValue \in FenwickValues : SegmentUpdate(index, newValue)

SpecSegment == InitSegment /\ [][NextSegment]_vars

Keys == 1..MaxKey

\* new BTree(d) / new BPlusTree(d); `present` counts how often each value was
\* inserted.
NewB(k, d) ==
    /\ kind = k
    /\ root = null
    /\ nodeCount = 0
    /\ array = <<>>
    /\ wordCount = 0
    /\ data = <<>>
    /\ tree = [i \in {0} |-> 0]
    /\ degree = d
    /\ call = Call("new", d)
    /\ ret = undefined
    /\ emitted = <<>>
    /\ arrays = [a \in ArrayIds |-> <<>>]
    /\ animationSteps = 1
    /\ steps = NoRef
    /\ events = [name \in EventNames |-> <<>>]
    /\ invoked = <<>>
    /\ present = [v \in Keys |-> 0]

Degrees == {2, 3}

InitBTree == \E d \in Degrees : NewB("BTree", d)

NextBTreeInsert == \E value \in Keys : BTreeInsert(value)

NextBTree ==
    \E value \in Keys :
        \/ nodeCount < MaxSearched /\ BTreeInsert(value)
        \/ BTreeSearch(value)
        \/ BTreeDelete(value)

\* insert is the only operation called
SpecBTreeInsert == InitBTree /\ [][NextBTreeInsert]_vars

SpecBTree == InitBTree /\ [][NextBTree]_vars

InitBPlus == \E d \in Degrees : NewB("BPlus", d)

NextBPlusInsert == \E value \in Keys : BPlusInsert(value)

NextBPlus ==
    \E value \in Keys :
        \/ nodeCount < MaxSearched /\ BPlusInsert(value)
        \/ BPlusSearch(value)
        \/ BPlusDelete(value)

\* insert is the only operation called
SpecBPlusInsert == InitBPlus /\ [][NextBPlusInsert]_vars

SpecBPlus == InitBPlus /\ [][NextBPlus]_vars

InitFenwick == New("Fenwick")

NextFenwick ==
    \/ \E value \in FenwickValues : FenwickInsert(value) \/ FenwickDelete(value)
    \/ \E index \in 1..MaxData : FenwickQuery(index)

SpecFenwick == InitFenwick /\ [][NextFenwick]_vars

\* The four structures whose delete is not implemented.
InitNoDelete == InitSegment \/ InitFenwick \/ InitBTree \/ InitBPlus

NextNoDelete == NextSegment \/ NextFenwick \/ NextBTree \/ NextBPlus

SpecNoDelete == InitNoDelete /\ [][NextNoDelete]_vars

\* Every structure, with inserts of numbers, of a value that is not a number
\* and of the empty word.
Inputs == {1, 2, TEXT}

InitAnyKind ==
    InitBinary \/ InitHeap \/ InitTrie \/ InitSegment \/ InitFenwick \/ InitBTree \/ InitBPlus

NextInputs ==
    \/ \E value \in Inputs :
           \/ BSTInsert(value) \/ AVLInsert(value) \/ RBInsert(value)
           \/ HeapInsert(value)
           \/ SegmentInsert(value) \/ FenwickInsert(value)
           \/ nodeCount < MaxSearched /\ (BTreeInsert(value) \/ BPlusInsert(value))
    \/ \E input \in Words \cup {<<>>} : TrieInsert(input)

SpecInputs == InitAnyKind /\ [][NextInputs]_vars

\* Every structure, with inserts and clear calls.
NextClear == NextInputs \/ Clear

SpecClear == InitAnyKind /\ [][NextClear]_vars

Init == InitBinary \/ InitDeepAVL \/ InitHeap \/ InitTrie \/ InitFenwick

Next == NextBinary \/ NextHeap \/ NextTrie \/ NextFenwick

Spec == Init /\ [][Next]_vars

(***************************************************************************)
(* Properties                                                              *)
(***************************************************************************)
\* The nodes of a tree (each with its subtree).
RECURSIVE Nodes(_)
Nodes(node) ==
    IF node = null THEN {} ELSE {node} \cup Nodes(node.left) \cup Nodes(node.right)

NonDecreasing(seq) == \A i \in 1..(Len(seq) - 1) : seq[i] <= seq[i + 1]

\* search of the class the instance belongs to, without its log and event.
search(value) ==
    IF kind = "BST" THEN BST_searchNode(root, value)
    ELSE IF kind = "AVL" THEN AVL_searchNode(root, value)
    ELSE RB_searchNode(root, value)

Found(result, value) == result # null /\ result.value = value

\* C1: in a BST, AVL or Red-Black tree, after any inserts and deletes, search(v)
\* returns a node holding v exactly when v was inserted and not deleted since,
\* and null otherwise; so does the search call that was made last.
C1_SearchFindsWhatIsStored ==
    kind \in BinaryKinds =>
        /\ \A v \in Values \cup DeepValues :
               IF v \in present THEN Found(search(v), v) ELSE search(v) = null
        /\ call.op = "search" =>
               IF call.arg \in present THEN Found(ret, call.arg) ELSE ret = null

\* A search that found a node below the root, in a tree a delete has spliced
\* (a node whose parent reference still names the deleted node).
C1_Witness ==
    /\ kind \in BinaryKinds
    /\ call.op = "search"
    /\ Found(ret, call.arg)
    /\ ret.value # root.value
    /\ \E n \in Nodes(root) : n.parent = GONE
    /\ \E v \in Values \ present : search(v) = null

\* C2: after any sequence of inserts into a BST, AVL or Red-Black tree, the
\* in-order traversal yields the stored values, in non-decreasing order.
C2_InorderIsSorted ==
    kind \in BinaryKinds =>
        /\ NonDecreasing(inorder(root))
        /\ Range(inorder(root)) = present
        /\ Len(inorder(root)) = Cardinality(present)

C2_Witness ==
    /\ kind = "RedBlack"
    /\ call.op = "insert"
    /\ Len(inorder(root)) >= 4
    /\ getHeight(root) = 3

BalanceFactor(node) == getHeight(node.left) - getHeight(node.right)

\* C3: after any sequence of inserts into an AVL tree, the balance factor
\* computed from the actual subtree heights is -1, 0 or 1 at every node.
C3_AVLInsertKeepsBalance ==
    kind = "AVL" => \A n \in Nodes(root) : BalanceFactor(n) \in {-1, 0, 1}

\* Seven values were inserted, the largest last, and the tree has height 3.
C3_Witness ==
    /\ kind = "AVL"
    /\ call = Call("insert", MaxInsertVal)
    /\ nodeCount = 7
    /\ root.right.right.value = MaxInsertVal
    /\ getHeight(root) = 3

RECURSIVE StructurallyBalanced(_)
StructurallyBalanced(node) ==
    \/ node = null
    \/ /\ BalanceFactor(node) >= -1
       /\ BalanceFactor(node) <= 1
       /\ StructurallyBalanced(node.left)
       /\ StructurallyBalanced(node.right)

\* C4: after any sequence of inserts and deletes on an AVL tree (a delete of a
\* node with two children, a delete that unbalances two levels), every node has
\* a structural balance factor of -1, 0 or 1.
C4_AVLDeleteKeepsBalance ==
    kind = "AVL" => StructurallyBalanced(root)

\* delete(12) in the tree of DeepInserts: node 11 is rotated, its subtree gets
\* shorter, and the root 8 is rotated too, so that 5 is the new root.
C4_Witness ==
    /\ kind = "AVL"
    /\ call = Call("delete", 12)
    /\ nodeCount = 11
    /\ root.value = 5
    /\ root.right.value = 8
    /\ root.right.right.value = 10

\* The numbers of black nodes on the paths from a node down to a null slot.
RECURSIVE BlackCounts(_)
BlackCounts(node) ==
    IF node = null THEN {0}
    ELSE {k + (IF node.color = "BLACK" THEN 1 ELSE 0) :
              k \in BlackCounts(node.left) \cup BlackCounts(node.right)}

\* C5: after any sequence of inserts into an empty Red-Black tree, no RED node
\* has a RED child, and every path from the root to a null slot holds the same
\* number of BLACK nodes.
C5_RedBlackInvariants ==
    kind = "RedBlack" =>
        /\ \A n \in Nodes(root) : isRed(n) => ~isRed(n.left) /\ ~isRed(n.right)
        /\ Cardinality(BlackCounts(root)) = 1

\* Seven inserts, a tree of height 4 with a RED node below the root's children.
C5_Witness ==
    /\ kind = "RedBlack"
    /\ call.op = "insert"
    /\ nodeCount = 7
    /\ getHeight(root) = 4
    /\ \E n \in Nodes(root) : isRed(n) /\ n.parent # root.id

\* C6: after any MinHeap insert and delete calls, every slot of the backing
\* array is at most each of its children: array[i] <= array[2i+1] and
\* array[i] <= array[2i+2] wherever the child index exists.
C6_HeapProperty ==
    kind = "MinHeap" =>
        \A i \in 0..(Len(array) - 1) :
            /\ 2 * i + 1 < Len(array) => at(array, i) <= at(array, 2 * i + 1)
            /\ 2 * i + 2 < Len(array) => at(array, i) <= at(array, 2 * i + 2)

\* A delete has sifted the last element down two levels of a seven-slot heap.
C6_Witness ==
    /\ kind = "MinHeap"
    /\ call.op = "delete"
    /\ Len(array) = 6
    /\ at(array, 0) < at(array, 1)
    /\ at(array, 1) < at(array, 3)
    /\ at(array, 2) < at(array, 5)

\* The number of slots of arr that hold v.
Count(arr, v) == Cardinality({i \in 1..Len(arr) : arr[i] = v})

Minimum(arr) == CHOOSE m \in Range(arr) : \A v \in Range(arr) : m <= v

\* C7: a MinHeap delete() on a non-empty heap returns true, reports in its
\* NODE_DELETED notification the minimum stored before the call, and leaves the
\* stored multiset as it was less one occurrence of that minimum (so one slot
\* fewer); and a delete that directly follows a delete reports a value that is
\* not smaller.  k deletes after k inserts therefore report non-decreasing
\* values and leave the heap empty.
C7_DeleteRemovesOneMinimum ==
    [][(kind = "MinHeap" /\ call'.op = "delete" /\ Len(array) > 0) =>
          /\ ret' = TRUE
          /\ emitted' = <<Event(NODE_DELETED, Minimum(array))>>
          /\ \A v \in Values :
                 Count(array', v) = Count(array, v) - (IF v = Minimum(array) THEN 1 ELSE 0)
          /\ Len(array') = Len(array) - 1
          /\ nodeCount' = nodeCount - 1
          /\ (call.op = "delete" /\ emitted # <<>>) => emitted[1].value <= emitted'[1].value
      ]_vars

\* A delete took one of the two occurrences of the minimum out of a full heap;
\* the other one is the root now, above a larger left child.
C7_Witness ==
    /\ kind = "MinHeap"
    /\ call.op = "delete"
    /\ ret = TRUE
    /\ Len(array) = MaxHeapLen - 1
    /\ emitted[1].value = at(array, 0)
    /\ Count(array, at(array, 0)) = 1
    /\ at(array, 1) > at(array, 0)

\* The words the trie holds: those a walk from the root spells out and ends on
\* a node marked isEndOfWord.
Stored(word) == Trie_searchFrom(root, word, 1) # null

\* C8 (as stated): after any Trie insert and delete calls with non-empty words,
\* getAllWords() returns exactly the words that were inserted and not deleted
\* since, and search(w) returns a node exactly when w is one of them.
C8_WordsAsGiven ==
    kind = "Trie" =>
        /\ Range(getAllWords(root)) = present
        /\ \A w \in Words : Stored(toLowerCase(w)) <=> w \in present

\* C8 (amended): getAllWords() returns, each once, exactly the lower-cased forms
\* of the words that were inserted and not deleted since (in any spelling),
\* and search(w) returns a node exactly when the lower-cased form of w is one
\* of them; so does the search call that was made last.
C8_WordsLowerCased ==
    kind = "Trie" =>
        LET words == {toLowerCase(w) : w \in present}
        IN  /\ Range(getAllWords(root)) = words
            /\ Len(getAllWords(root)) = Cardinality(words)
            /\ \A w \in Words : Stored(toLowerCase(w)) <=> toLowerCase(w) \in words
            /\ call.op = "search" => ((ret # null) <=> toLowerCase(call.arg) \in words)

\* Three words were stored and "a" was then deleted from above "Ab" (kept, as
\* "ab") and beside "b".
C8_Witness ==
    /\ kind = "Trie"
    /\ wordCount = 3
    /\ call = Call("delete", <<"a">>)
    /\ <<"A", "b">> \in present
    /\ Range(getAllWords(root)) = {<<"a", "b">>, <<"b">>}

\* C9: Trie delete(word) returns true when the word was stored immediately
\* before the call and false when it was not, whatever other words share a
\* prefix with it, extend it or are stored elsewhere.
C9_DeleteReportsWhetherStored ==
    [][(kind = "Trie" /\ call'.op = "delete") =>
          (ret' = Stored(toLowerCase(call'.arg)))
      ]_vars

\* a1 + ... + ai
RECURSIVE Sum(_, _)
Sum(d, i) == IF i = 0 THEN 0 ELSE d[i] + Sum(d, i - 1)

\* C10: after inserting a1..an into an empty Fenwick tree, query(i) is
\* a1 + ... + ai for every i in 1..n; so is the result of the last query call.
C10_QueryIsPrefixSum ==
    kind = "Fenwick" =>
        /\ \A i \in 1..Len(data) : query(tree, i) = Sum(data, i)
        /\ call.op = "query" => ret = Sum(data, call.arg)

DistinctInserts == \A v \in Keys : present[v] <= 1

\* A search result is a position {node, index} that holds v.
Position(result, v) == result # null /\ read(result.node.keys, result.index) = v

\* C11: after any inserts of distinct values into a B-Tree (sequences that
\* split the root and split children included), search(v) returns a position
\* {node, index} with node.keys[index] = v for every inserted v, and null for
\* every value never inserted; so does the search call that was made last.
C11_BTreeSearchFindsInserted ==
    (kind = "BTree" /\ DistinctInserts /\ root # null) =>
        /\ \A v \in Keys :
               IF present[v] > 0 THEN Position(BTree_searchNode(root, v), v)
               ELSE BTree_searchNode(root, v) = null
        /\ call.op = "search" =>
               IF present[call.arg] > 0 THEN Position(ret, call.arg) ELSE ret = null

\* The depths of the leaves below a node.
RECURSIVE LeafDepths(_)
LeafDepths(node) ==
    IF node.isLeaf THEN {0}
    ELSE {d + 1 : d \in UNION {LeafDepths(node.children[k]) : k \in 1..Len(node.children)}}

\* C12: after any inserts into a B-Tree of degree t, keys.length is between
\* t - 1 and 2t - 1 at every node except the root and at most 2t - 1 at the
\* root, and all leaves are at the same depth.
C12_BTreeOccupancy ==
    (kind = "BTree" /\ root # null) =>
        /\ \A n \in BNodes(root) :
               /\ Len(n.keys) <= 2 * degree - 1
               /\ n.id # root.id => Len(n.keys) >= degree - 1
        /\ Cardinality(LeafDepths(root)) = 1

\* Ten inserts into a tree of degree 2: the root was split a second time and
\* has inner nodes below it.
C12_Witness ==
    /\ kind = "BTree"
    /\ degree = 2
    /\ nodeCount = MaxInserts
    /\ LeafDepths(root) = {2}
    /\ Len(root.children) = 2

\* How often v occurs in a sequence of keys.
Occurrences(keys, v) == Cardinality({k \in 1..Len(keys) : keys[k] = v})

\* C13: after any inserts into a B+ Tree, the keys of the leaves along the
\* next chain from the leftmost leaf (the order of inorderTraversal) are
\* exactly the inserted values, each as often as it was inserted, in
\* non-decreasing order.
C13_LeavesHoldInserted ==
    kind = "BPlus" =>
        LET keys == BPlus_inorderKeys(root)
        IN  /\ \A v \in Keys : Occurrences(keys, v) = present[v]
            /\ Len(keys) = nodeCount
            /\ NonDecreasing(keys)

\* C14: in a B+ Tree, after any inserts, search(v) returns a position
\* {node, index} in a leaf with node.keys[index] = v for every inserted v
\* (going right where v equals a separator of an inner node), and null for a
\* value never inserted; so does the search call that was made last.
C14_BPlusSearchFindsLeaf ==
    (kind = "BPlus" /\ root # null) =>
        /\ \A v \in Keys :
               LET r == BPlus_searchNode(root, v)
               IN  IF present[v] > 0 THEN Position(r, v) /\ r.node.isLeaf ELSE r = null
        /\ call.op = "search" =>
               IF present[call.arg] > 0
               THEN Position(ret, call.arg) /\ ret.node.isLeaf
               ELSE ret = null

\* C15: after any inserts and deletes on a BST, AVL or Red-Black tree
\* (duplicate inserts, deletes of absent values and deletes of nodes with two
\* children included), getSize() (nodeCount) is the number of nodes reachable
\* from the root.
C15_SizeCountsNodes ==
    kind \in BinaryKinds =>
        /\ nodeCount = Cardinality(Nodes(root))
        /\ nodeCount = Len(inorder(root))

\* The root 8 of the twelve-node AVL tree, a node with two children, was
\* deleted, and the rebalancing made 5 the root.
C15_Witness ==
    /\ kind = "AVL"
    /\ call = Call("delete", 8)
    /\ ret = TRUE
    /\ root.value = 5
    /\ inorder(root) = <<1, 2, 3, 4, 5, 6, 7, 9, 10, 11, 12>>
    /\ nodeCount = Len(DeepInserts) - 1

\* C16: after any inserts and deletes on a Trie, getSize() (wordCount) is
\* the number of words getAllWords() returns.
C16_SizeCountsWords == kind = "Trie" => wordCount = Len(getAllWords(root))

NoDeleteKinds == {"Segment", "Fenwick", "BTree", "BPlus"}

\* C18: delete(v) on a Segment Tree, a Fenwick Tree, a B-Tree and a B+ Tree
\* returns false (it does not throw) and leaves the stored data, the tree and
\* getSize() as they were, whether v is stored or not.
C18_DeleteIsNoOp ==
    [][(kind \in NoDeleteKinds /\ call'.op = "delete") =>
          /\ ret' = FALSE
          /\ data' = data
          /\ tree' = tree
          /\ root' = root
          /\ nodeCount' = nodeCount]_vars

\* delete(1) on a Segment Tree that stores 1 and 2.
C18_Witness ==
    /\ kind = "Segment"
    /\ call = Call("delete", 1)
    /\ ret = FALSE
    /\ data = <<1, 2>>
    /\ root.value = 3
    /\ nodeCount = 2

\* The call about to return is a delete or a search of a value that is not
\* stored (a word counts as stored in its lower-cased form), or a delete on an
\* empty heap.
NotFoundCall ==
    \/ /\ kind \in BinaryKinds
       /\ call'.op \in {"delete", "search"}
       /\ call'.arg \notin Range(inorder(root))
    \/ /\ kind = "Trie"
       /\ call'.op \in {"delete", "search"}
       /\ toLowerCase(call'.arg) \notin Range(getAllWords(root))
    \/ /\ kind = "MinHeap"
       /\ call'.op = "delete"
       /\ Len(array) = 0

NumericKinds == BinaryKinds \cup {"MinHeap", "BTree", "BPlus", "Segment", "Fenwick"}

\* The call about to return is an insert of a value that is not a number into
\* a numeric structure, or of the empty word into a Trie.
InvalidInsert ==
    /\ call'.op = "insert"
    /\ \/ kind \in NumericKinds /\ call'.arg = TEXT
       \/ kind = "Trie" /\ call'.arg = <<>>

\* C20: an insert of a value that is not a number into a BST, AVL tree,
\* Red-Black tree, Min-Heap, B-Tree, B+ Tree, Segment Tree or Fenwick Tree,
\* and an insert of the empty string into a Trie, leaves the stored elements,
\* the tree and getSize() as they were.
C20_InvalidInputChangesNothing ==
    [][InvalidInsert =>
          /\ root' = root
          /\ array' = array
          /\ data' = data
          /\ tree' = tree
          /\ nodeCount' = nodeCount
          /\ wordCount' = wordCount]_vars

\* The shape of a tree: the values with their places, heights and colours.
RECURSIVE Shape(_)
Shape(node) ==
    IF node = null THEN null
    ELSE [value |-> node.value, height |-> node.height, color |-> node.color,
          left |-> Shape(node.left), right |-> Shape(node.right)]

\* C21: an insert of a value that is already stored in a BST, AVL tree or
\* Red-Black tree leaves getSize(), the stored values, the shape of the
\* tree and the height and colour of every node as they were.
C21_DuplicateIgnored ==
    [][(kind \in BinaryKinds /\ call'.op = "insert"
          /\ call'.arg \in Range(inorder(root))) =>
          /\ nodeCount' = nodeCount
          /\ inorder(root') = inorder(root)
          /\ Shape(root') = Shape(root)]_vars

\* ceil(log2(n + 1)): the least height of a binary tree of n nodes.
RECURSIVE MinHeight(_)
MinHeight(n) == IF n = 0 THEN 0 ELSE 1 + MinHeight(n \div 2)

StrictlyIncreasing(seq) == \A i \in 1..(Len(seq) - 1) : seq[i] < seq[i + 1]

\* C22: balance() on a BST of n > 2 nodes leaves a tree of the least height
\* ceil(log2(n + 1)) that is ordered as a BST and has the in-order sequence
\* of values and the getSize() it had before; on a BST of n <= 2 nodes it
\* changes nothing.
C22_BalanceIsHeightMinimal ==
    [][(kind = "BST" /\ call'.op = "balance") =>
          LET n == Len(inorder(root))
          IN  IF n > 2
              THEN /\ getHeight(root') = MinHeight(n)
                   /\ inorder(root') = inorder(root)
                   /\ StrictlyIncreasing(inorder(root'))
                   /\ nodeCount' = nodeCount
                   /\ nodeCount' = n
              ELSE root' = root /\ nodeCount' = nodeCount]_vars

\* balance() was called on a tree of five nodes whose root was not 3: the node
\* that is the root now still has the parent it had.
C22_Witness ==
    /\ kind = "BST"
    /\ call.op = "balance"
    /\ nodeCount = 5
    /\ getHeight(root) = 3
    /\ root.value = 3
    /\ root.parent # NoRef

\* C23: after every insert and delete call on a Red-Black tree that leaves
\* the tree non-empty, in any interleaving, the root is BLACK.
C23_RootIsBlack == (kind = "RedBlack" /\ root # null) => root.color = "BLACK"

\* delete(2) removed the root of a two-node tree: the node that is the root now
\* was its child.
C23_Witness ==
    /\ kind = "RedBlack"
    /\ call = Call("delete", 2)
    /\ ret = TRUE
    /\ nodeCount = 1
    /\ root.value = 1
    /\ root.color = "BLACK"

\* getSize(): nodeCount, and wordCount for a Trie.
getSize == IF kind = "Trie" THEN wordCount ELSE nodeCount

\* The argument is one the structure accepts: a number, or a non-empty word.
ValidArg(arg) == IF kind = "Trie" THEN arg # <<>> ELSE arg # TEXT

\* C24: clear() empties every kind of structure: getSize() is 0 right after
\* it, and the calls that follow give what they give on a new instance of
\* the kind. Checked for the call that follows a clear: an insert returns
\* normally and leaves getSize() = 1, with the inserted value as the whole
\* content of a Segment Tree (the root's sum) and of a Fenwick Tree
\* (query(1)).
C24_ClearGivesNewInstance ==
    [][/\ call'.op = "clear" => getSize' = 0
       /\ (call.op = "clear" /\ call'.op = "insert" /\ ValidArg(call'.arg)) =>
              /\ ret' = undefined
              /\ getSize' = 1
              /\ kind = "Segment" => root'.value = call'.arg
              /\ kind = "Fenwick" => query(tree', 1) = call'.arg]_vars

\* C25: getAnimationSteps() returns the steps of the log in the order they
\* were appended and leaves the log empty, so a second call right after it
\* returns an empty sequence; and an array it returned, for as long as the
\* caller holds it, is not changed by any later call.
C25_DrainIsOneShot ==
    [][/\ call'.op = "getAnimationSteps" =>
             /\ ret' = arrays[animationSteps]
             /\ arrays'[animationSteps'] = <<>>
       /\ (call.op = "getAnimationSteps" /\ call'.op = "getAnimationSteps") => ret' = <<>>
       /\ (steps # NoRef /\ steps' = steps) => arrays'[steps] = arrays[steps]]_vars

\* The caller holds the two steps a drain returned, and a step was appended to
\* the log since.
C25_Witness ==
    /\ call.op = "_addAnimationStep"
    /\ steps # NoRef
    /\ arrays[steps] = <<Step("compare"), Step("insert")>>
    /\ arrays[animationSteps] = <<Step("insert")>>

DeleteKinds == BinaryKinds \cup {"MinHeap", "Trie"}

\* The elements stored: the values of a tree, the slots of the heap, the
\* words of a trie.
Elements(r, arr) ==
    IF kind \in BinaryKinds THEN inorder(r)
    ELSE IF kind = "MinHeap" THEN arr
    ELSE getAllWords(r)

\* C26: a delete call on a BST, AVL tree, Red-Black tree, Min-Heap or Trie
\* publishes exactly one NODE_DELETED event when it removes an element (also
\* when it removes the last one) and none when it removes nothing.
C26_DeleteAnnounced ==
    [][(kind \in DeleteKinds /\ call'.op = "delete") =>
          LET removed   == Elements(root', array') # Elements(root, array)
              announced == {i \in 1..Len(emitted') : emitted'[i].event = NODE_DELETED}
          IN  Cardinality(announced) = (IF removed THEN 1 ELSE 0)]_vars

\* C27: an insert call that adds an element, on a structure of any kind,
\* publishes exactly one NODE_INSERTED event, with the inserted value, before
\* it returns.
C27_InsertAnnounced ==
    [][(call'.op = "insert" /\ (nodeCount' > nodeCount \/ wordCount' > wordCount)) =>
          LET value == IF kind = "Trie" THEN toLowerCase(call'.arg) ELSE call'.arg
          IN  emitted' = <<Event(NODE_INSERTED, value)>>]_vars

(***************************************************************************)
(* getHeight                                                               *)
(***************************************************************************)
\* TreeBase._getHeight stops only at null: on a node that has no left and no
\* right field the recursive call receives undefined, passes the null test
\* and raises a TypeError on reading undefined.left.
RECURSIVE getHeight_throws(_)
getHeight_throws(node) ==
    /\ node # null
    /\ \/ "left" \notin DOMAIN node
       \/ getHeight_throws(node.left)
       \/ getHeight_throws(node.right)

\* Trie._getHeight: the longest chain of children below the node.
RECURSIVE Trie_getHeight(_)
Trie_getHeight(node) ==
    IF node = null \/ Len(node.children) = 0 THEN 0
    ELSE LET RECURSIVE maxHeight(_)
             maxHeight(i) == IF i = 0 THEN 0
                             ELSE Max(maxHeight(i - 1), Trie_getHeight(node.children[i]))
         IN  1 + maxHeight(Len(node.children))

\* Only the Trie overrides getHeight; every other kind inherits TreeBase's.
GetHeight_throws == kind # "Trie" /\ getHeight_throws(root)

GetHeight ==
    /\ call' = Call("getHeight", undefined)
    /\ ret' = (IF kind = "Trie" THEN Trie_getHeight(root)
               ELSE IF GetHeight_throws THEN TypeError
               ELSE getHeight(root))
    /\ emitted' = <<>>
    /\ UNCHANGED <<kind, degree, animVars, busVars, root, nodeCount, array, wordCount, present,
                   fenwickVars>>

\* Every structure, with inserts, clear calls and getHeight calls.
NextHeight == NextClear \/ GetHeight

SpecHeight == InitAnyKind /\ [][NextHeight]_vars

\* C28: every getHeight call completes without error and returns a
\* non-negative integer, which is 0 when the structure is empty.
C28_HeightIsDefined ==
    [][call'.op = "getHeight" =>
          /\ ~GetHeight_throws
          /\ ret' \in Nat
          /\ (root = null => ret' = 0)]_vars

(***************************************************************************)
(* Traversals, with the callback of handleTraversal (node => values.push(  *)
(* node.value)): the result of a traversal is the array of pushed values.  *)
(***************************************************************************)
\* node.value; a node object without that field yields undefined.
Visit(node) == IF "value" \in DOMAIN node THEN node.value ELSE undefined

RECURSIVE preorder(_)
preorder(node) ==
    IF node = null THEN <<>>
    ELSE <<node.value>> \o preorder(node.left) \o preorder(node.right)

RECURSIVE postorder(_)
postorder(node) ==
    IF node = null THEN <<>>
    ELSE postorder(node.left) \o postorder(node.right) \o <<node.value>>

\* The while loop of levelOrderTraversal; `if (node.left)` is also false of
\* a node object that has no left field.
RECURSIVE levelOrder(_)
levelOrder(queue) ==
    IF queue = <<>> THEN <<>>
    ELSE LET node  == Head(queue)
             left  == IF "left" \in DOMAIN node /\ node.left # null
                      THEN <<node.left>> ELSE <<>>
             right == IF "right" \in DOMAIN node /\ node.right # null
                      THEN <<node.right>> ELSE <<>>
         IN  <<Visit(node)>> \o levelOrder(Tail(queue) \o left \o right)

\* BTree.levelOrderTraversal, BPlusTree.levelOrderTraversal and
\* FenwickTree.levelOrderTraversal: the queue is fed from node.children.
RECURSIVE levelOrderChildren(_)
levelOrderChildren(queue) ==
    IF queue = <<>> THEN <<>>
    ELSE LET node == Head(queue)
             kids == IF kind = "Fenwick" \/ ~node.isLeaf THEN node.children ELSE <<>>
         IN  <<Visit(node)>> \o levelOrderChildren(Tail(queue) \o kids)

\* FenwickTree._genericTraversal: the node, then each child's subtree.
RECURSIVE genericTraversal(_)
genericTraversal(node) ==
    IF node = null THEN <<>>
    ELSE LET RECURSIVE below(_)
             below(i) == IF i > Len(node.children) THEN <<>>
                         ELSE genericTraversal(node.children[i]) \o below(i + 1)
         IN  <<Visit(node)>> \o below(1)

TraversalTypes == {"inorder", "preorder", "postorder", "levelorder"}

\* The recursive helpers of TreeBase stop only at null and read node.left of
\* whatever else they are given.  They are inherited for pre-order and
\* post-order by every kind, and for in-order by every kind but the B-Tree,
\* the B+ Tree and the Fenwick Tree.
Traversal_throws(type) ==
    /\ type # "levelorder"
    /\ ~(type = "inorder" /\ kind \in {"BTree", "BPlus", "Fenwick"})
    /\ getHeight_throws(root)

\* The values pushed by a traversal that completes.
Traversal_values(type) ==
    IF type = "levelorder"
    THEN IF root = null THEN <<>>
         ELSE IF kind \in {"BTree", "BPlus", "Fenwick"} THEN levelOrderChildren(<<root>>)
         ELSE levelOrder(<<root>>)
    ELSE IF type = "inorder" /\ kind = "BTree" THEN <<>>
    ELSE IF type = "inorder" /\ kind = "BPlus"
         THEN [i \in 1..Len(BPlus_inorderKeys(root)) |-> undefined]
    ELSE IF type = "inorder" /\ kind = "Fenwick" THEN genericTraversal(root)
    ELSE IF type = "inorder" THEN inorder(root)
    ELSE IF type = "preorder" THEN preorder(root)
    ELSE postorder(root)

Traversal(type) ==
    /\ call' = Call(type, undefined)
    /\ ret' = (IF Traversal_throws(type) THEN TypeError ELSE Traversal_values(type))
    /\ emitted' = <<>>
    /\ UNCHANGED <<kind, degree, animVars, busVars, root, nodeCount, array, wordCount, present,
                   fenwickVars>>

\* Every structure, with inserts, deletes from the binary trees and traversals.
NextTraversal ==
    \/ NextInputs
    \/ \E value \in Inputs : BSTDelete(value) \/ AVLDelete(value) \/ RBDelete(value)
    \/ \E type \in TraversalTypes : Traversal(type)

SpecTraversal == InitAnyKind /\ [][NextTraversal]_vars

\* The values below a node, and the depth of each value of a binary tree.
Below(node) == Range(inorder(node))

RECURSIVE Subtrees(_)
Subtrees(node) ==
    IF node = null THEN {} ELSE {node} \cup Subtrees(node.left) \cup Subtrees(node.right)

RECURSIVE Depth(_, _)
Depth(node, v) ==
    IF node.value = v THEN 0
    ELSE 1 + (IF v \in Below(node.left) THEN Depth(node.left, v) ELSE Depth(node.right, v))

Index(seq, v) == CHOOSE i \in 1..Len(seq) : seq[i] = v

\* seq lists each node of the binary tree r once, in the order of the traversal.
InOrderOf(type, r, seq) ==
    /\ Len(seq) = Cardinality(Below(r))
    /\ Range(seq) = Below(r)
    /\ \A n \in Subtrees(r) :
          LET own == Index(seq, n.value)
              L  == {Index(seq, v) : v \in Below(n.left)}
              R  == {Index(seq, v) : v \in Below(n.right)}
          IN  /\ \A l \in L, h \in R : l < h
              /\ type = "inorder"   => (\A l \in L : l < own) /\ (\A h \in R : own < h)
              /\ type = "preorder"  => \A d \in L \cup R : own < d
              /\ type = "postorder" => \A d \in L \cup R : d < own
              /\ type = "levelorder" =>
                    \A m \in Subtrees(r) :
                        Depth(r, m.value) < Depth(r, n.value) => Index(seq, m.value) < own

\* C29: on a non-empty structure each of the four traversals completes without
\* error and visits at least one node; on a binary tree it visits each node
\* exactly once, in the order that the traversal is named after.
C29_TraversalsVisit ==
    [][(call'.op \in TraversalTypes /\ root # null /\ getSize > 0) =>
          /\ ~Traversal_throws(call'.op)
          /\ Len(ret') >= 1
          /\ (kind \in BinaryKinds => InOrderOf(call'.op, root, ret'))]_vars

(***************************************************************************)
(* TreeFactory.  A type identifier is the sequence of its characters; the  *)
(* instance returned is named by its kind.                                 *)
(***************************************************************************)
\* A switch that compares the identifier as it was given.
createTree_asGiven(type) ==
    CASE type \in {<<"b", "s", "t">>,
                   <<"b", "i", "n", "a", "r", "y", "-", "s", "e", "a", "r", "c", "h", "-",
                     "t", "r", "e", "e">>} -> "BST"
      [] type \in {<<"a", "v", "l">>, <<"a", "v", "l", "-", "t", "r", "e", "e">>} -> "AVL"
      [] type \in {<<"r", "e", "d", "b", "l", "a", "c", "k">>,
                   <<"r", "e", "d", "-", "b", "l", "a", "c", "k", "-", "t", "r", "e", "e">>}
            -> "RedBlack"
      [] type \in {<<"h", "e", "a", "p">>, <<"m", "i", "n", "-", "h", "e", "a", "p">>}
            -> "MinHeap"
      [] type \in {<<"t", "r", "i", "e">>,
                   <<"p", "r", "e", "f", "i", "x", "-", "t", "r", "e", "e">>} -> "Trie"
      [] type = <<"b", "t", "r", "e", "e">> -> "BTree"
      [] type = <<"b", "p", "l", "u", "s">> -> "BPlus"
      [] type = <<"s", "e", "g", "m", "e", "n", "t">> -> "Segment"
      [] type = <<"f", "e", "n", "w", "i", "c", "k">> -> "Fenwick"
      [] OTHER -> "BST"

\* A factory that does not lower-case the identifier.
createTree_caseSensitive(type) == createTree_asGiven(type)

createTree(type) == createTree_asGiven(toLowerCase(type))

\* getAvailableTypes: each id, with the kind that its name denotes.
getAvailableTypes ==
    <<[id |-> <<"b", "s", "t">>, kind |-> "BST"],
      [id |-> <<"a", "v", "l">>, kind |-> "AVL"],
      [id |-> <<"r", "e", "d", "b", "l", "a", "c", "k">>, kind |-> "RedBlack"],
      [id |-> <<"h", "e", "a", "p">>, kind |-> "MinHeap"],
      [id |-> <<"t", "r", "i", "e">>, kind |-> "Trie"],
      [id |-> <<"b", "t", "r", "e", "e">>, kind |-> "BTree"],
      [id |-> <<"b", "p", "l", "u", "s">>, kind |-> "BPlus"],
      [id |-> <<"s", "e", "g", "m", "e", "n", "t">>, kind |-> "Segment"],
      [id |-> <<"f", "e", "n", "w", "i", "c", "k">>, kind |-> "Fenwick"]>>

\* switchTree: currentTree becomes the instance that createTree returns.
CreateTree(type) ==
    LET k == createTree(type)
    IN  /\ kind' = k
        /\ root' = (IF k = "Trie" THEN TrieNode("ROOT") ELSE null)
        /\ nodeCount' = 0
        /\ array' = <<>>
        /\ wordCount' = 0
        /\ data' = <<>>
        /\ tree' = [i \in {0} |-> 0]
        /\ degree' = 2
        /\ call' = Call("createTree", type)
        /\ ret' = k
        /\ emitted' = <<>>
        /\ arrays' = [a \in ArrayIds |-> <<>>]
        /\ animationSteps' = 1
        /\ steps' = NoRef
        /\ UNCHANGED busVars
        /\ present' = (IF k \in {"BTree", "BPlus"} THEN [v \in Keys |-> 0] ELSE {})

\* The identifiers asked for: the listed ones, in lower and in mixed case,
\* the longer names that the switch also accepts, and strings it does not know.
TypeInputs ==
    {getAvailableTypes[i].id : i \in 1..Len(getAvailableTypes)}
    \cup {<<"B", "S", "T">>, <<"A", "v", "l">>, <<"R", "e", "d", "B", "l", "a", "c", "k">>,
          <<"H", "E", "A", "P">>, <<"T", "r", "i", "e">>, <<"B", "T", "r", "e", "e">>,
          <<"b", "P", "l", "u", "s">>, <<"S", "e", "g", "m", "e", "n", "t">>,
          <<"F", "E", "N", "W", "I", "C", "K">>}
    \cup {<<"a", "v", "l", "-", "t", "r", "e", "e">>,
          <<"M", "i", "n", "-", "H", "e", "a", "p">>,
          <<"p", "r", "e", "f", "i", "x", "-", "t", "r", "e", "e">>}
    \cup {<<>>, <<"m", "a", "x", "-", "h", "e", "a", "p">>, <<"b", "s", "t", " ">>,
          <<"a", "v", "l", "t", "r", "e", "e">>}

NextFactory == NextInputs \/ \E type \in TypeInputs : CreateTree(type)

SpecFactory == InitBST /\ [][NextFactory]_vars

Listed(type) == {i \in 1..Len(getAvailableTypes) : getAvailableTypes[i].id = toLowerCase(type)}

\* The longer names that createTree accepts besides the listed identifiers.
LongNames ==
    <<[id |-> <<"b", "i", "n", "a", "r", "y", "-", "s", "e", "a", "r", "c", "h", "-",
                "t", "r", "e", "e">>, kind |-> "BST"],
      [id |-> <<"a", "v", "l", "-", "t", "r", "e", "e">>, kind |-> "AVL"],
      [id |-> <<"r", "e", "d", "-", "b", "l", "a", "c", "k", "-", "t", "r", "e", "e">>,
       kind |-> "RedBlack"],
      [id |-> <<"m", "i", "n", "-", "h", "e", "a", "p">>, kind |-> "MinHeap"],
      [id |-> <<"p", "r", "e", "f", "i", "x", "-", "t", "r", "e", "e">>, kind |-> "Trie"]>>

Named(type) == {i \in 1..Len(LongNames) : LongNames[i].id = toLowerCase(type)}

FreshInstance ==
    /\ nodeCount' = 0
    /\ wordCount' = 0
    /\ array' = <<>>
    /\ data' = <<>>
    /\ root' = (IF kind' = "Trie" THEN TrieNode("ROOT") ELSE null)

\* C30 as stated: createTree returns an instance of the corresponding kind for
\* each identifier that getAvailableTypes lists, whatever the case of its
\* letters, and a Binary Search Tree for every other string.
C30_ListedOrBST ==
    [][call'.op = "createTree" =>
          /\ FreshInstance
          /\ kind' = (IF Listed(call'.arg) # {}
                      THEN getAvailableTypes[CHOOSE i \in Listed(call'.arg) : TRUE].kind
                      ELSE "BST")]_vars

\* C30: createTree returns an instance of the corresponding kind for each
\* identifier that getAvailableTypes lists and for each of the longer names
\* binary-search-tree, avl-tree, red-black-tree, min-heap and prefix-tree,
\* whatever the case of the letters, and a Binary Search Tree for every other
\* string.
C30_RecognizedOrBST ==
    [][call'.op = "createTree" =>
          /\ FreshInstance
          /\ kind' = (IF Listed(call'.arg) # {}
                      THEN getAvailableTypes[CHOOSE i \in Listed(call'.arg) : TRUE].kind
                      ELSE IF Named(call'.arg) # {}
                      THEN LongNames[CHOOSE i \in Named(call'.arg) : TRUE].kind
                      ELSE "BST")]_vars

\* createTree("FENWICK") has returned a Fenwick Tree.
C30_Witness ==
    /\ call = Call("createTree", <<"F", "E", "N", "W", "I", "C", "K">>)
    /\ kind = "Fenwick"
    /\ ret = "Fenwick"
    /\ root = null

(***************************************************************************)
(* The splits of the B-Tree and of the B+ Tree, applied to every node of   *)
(* the current tree that has a full child, and to the new root that insert *)
(* puts above a full root.                                                 *)
(***************************************************************************)
SameKeys(before, after) ==
    \A v \in Range(before) \cup Range(after) : Occurrences(before, v) = Occurrences(after, v)

\* The pairs (x, i) on which insert can call _splitChild(x, i).
SplitCalls ==
    LET c    == Cardinality(BNodes(root))
        full(y) == Len(y.keys) = 2 * degree - 1
        new  == IF kind = "BTree" THEN BTreeNode(c + 1, FALSE) ELSE BPlusTreeNode(c + 1, FALSE)
        s    == [new EXCEPT !.children = <<setParent(root, c + 1)>>]
    IN  IF root = null THEN {}
        ELSE {[x |-> x, i |-> i, zid |-> c + 1] :
                 x \in {n \in BNodes(root) : ~n.isLeaf /\ ~full(n)},
                 i \in 0..(2 * degree - 1)}
             \cup (IF full(root) THEN {[x |-> s, i |-> 0, zid |-> c + 2]} ELSE {})

FullChild(sc) ==
    /\ sc.i < Len(sc.x.children)
    /\ Len(sc.x.children[sc.i + 1].keys) = 2 * degree - 1

\* C31: _splitChild(x, i) on a full child y leaves y with its first t - 1
\* keys, gives the new sibling y's last t - 1 keys and last t children, makes
\* x.keys[i] the former middle key of y, which is then in neither half, and
\* keeps the multiset of the keys of x, y and the sibling.
C31_SplitKeepsKeys ==
    kind = "BTree" =>
        \A sc \in SplitCalls :
            FullChild(sc) =>
                LET x  == sc.x
                    i  == sc.i
                    y  == x.children[i + 1]
                    x2 == BTree_splitChild(x, i, sc.zid)
                    y2 == x2.children[i + 1]
                    z  == x2.children[i + 2]
                    t  == degree
                IN  /\ y2.keys = SubSeq(y.keys, 1, t - 1)
                    /\ z.keys = SubSeq(y.keys, t + 1, 2 * t - 1)
                    /\ ~y.isLeaf =>
                          [j \in 1..t |-> z.children[j].id] = [j \in 1..t |-> y.children[t + j].id]
                    /\ read(x2.keys, i) = read(y.keys, t - 1)
                    /\ read(y.keys, t - 1) \notin Range(y2.keys) \cup Range(z.keys)
                    /\ SameKeys(x.keys \o y.keys, x2.keys \o y2.keys \o z.keys)

\* C32: the B+ Tree's _splitChild on a full leaf copies the middle key up to
\* the parent while it stays the first key of the new right leaf, and the keys
\* of the left leaf followed by those of the right leaf are the original keys;
\* on a full internal node it moves the middle key up, into neither child.
C32_BPlusSplitKeepsKeys ==
    kind = "BPlus" =>
        \A sc \in SplitCalls :
            FullChild(sc) =>
                LET x  == sc.x
                    i  == sc.i
                    y  == x.children[i + 1]
                    x2 == BPlus_splitChild(x, i, sc.zid)
                    y2 == x2.children[i + 1]
                    z  == x2.children[i + 2]
                    middle == read(y.keys, degree - 1)
                IN  /\ read(x2.keys, i) = middle
                    /\ y.isLeaf => /\ read(z.keys, 0) = middle
                                   /\ y2.keys \o z.keys = y.keys
                    /\ ~y.isLeaf => middle \notin Range(y2.keys) \cup Range(z.keys)

\* The B-Tree and the B+ Tree, with inserts only.
SpecBInsert == (InitBTree \/ InitBPlus) /\ [][NextBTreeInsert \/ NextBPlusInsert]_vars

\* C33: after any sequence of inserts into a B-Tree or a B+ Tree every internal
\* node with k keys has exactly k + 1 children, none of them null, and every
\* leaf has no children.
C33_ChildrenCount ==
    \A n \in BNodes(root) :
        IF n.isLeaf THEN Len(n.children) = 0
        ELSE /\ Len(n.children) = Len(n.keys) + 1
             /\ \A k \in 1..Len(n.children) : n.children[k] # null

\* A tree of three levels: an internal node has been split.
C33_Witness ==
    /\ root # null
    /\ ~root.isLeaf
    /\ \E k \in 1..Len(root.children) :
          /\ ~root.children[k].isLeaf
          /\ Len(root.children[k].children) = Len(root.children[k].keys) + 1

\* The leaves of a B+ Tree from left to right, and the leaves met from the
\* leftmost leaf along next (at most fuel of them).
RECURSIVE LeavesInOrder(_)
LeavesInOrder(node) ==
    IF node.isLeaf THEN <<node.id>>
    ELSE LET RECURSIVE from(_)
             from(k) == IF k > Len(node.children) THEN <<>>
                        ELSE LeavesInOrder(node.children[k]) \o from(k + 1)
         IN  from(1)

RECURSIVE LeafChain(_, _, _)
LeafChain(r, id, fuel) ==
    IF id = NoRef \/ fuel = 0 THEN <<>>
    ELSE <<id>> \o LeafChain(r, (CHOOSE n \in BNodes(r) : n.id = id).next, fuel - 1)

\* C34: after any sequence of inserts into a B+ Tree, following next from the
\* leftmost leaf visits every leaf exactly once, in left-to-right tree order,
\* and ends at a leaf whose next is null.
C34_NextLinksLeaves ==
    (kind = "BPlus" /\ root # null) =>
        LeafChain(root, leftmostLeaf(root).id, Cardinality(BNodes(root)) + 1)
            = LeavesInOrder(root)

\* Four leaves in a tree of three levels.
C34_Witness ==
    /\ kind = "BPlus"
    /\ root # null
    /\ Len(LeavesInOrder(root)) >= 4
    /\ \E k \in 1..Len(root.children) : ~root.children[k].isLeaf

\* The Segment Tree, with inserts, updates, deletes and clear calls.
SpecSegmentClear == InitSegment /\ [][NextSegment \/ Clear]_vars

\* node is the balanced sum-tree of d over the range [s, e].
RECURSIVE SumTree(_, _, _, _)
SumTree(node, d, s, e) ==
    /\ node # null
    /\ node.start = s
    /\ node.end = e
    /\ IF s = e
       THEN /\ node.left = null
            /\ node.right = null
            /\ node.value = d[s + 1]
       ELSE LET mid == (s + e) \div 2
            IN  /\ SumTree(node.left, d, s, mid)
                /\ SumTree(node.right, d, mid + 1, e)
                /\ node.value = node.left.value + node.right.value

\* C35: after every Segment Tree insert that stores a value (n values stored
\* then), the tree is the balanced sum-tree of data over [0, n - 1] and
\* getSize() is n.
C35_InsertBuildsSumTree ==
    [][(kind = "Segment" /\ call'.op = "insert" /\ data' # data) =>
          /\ SumTree(root', data', 0, Len(data') - 1)
          /\ root'.value = Sum(data', Len(data'))
          /\ nodeCount' = Len(data')]_vars

\* A third value was inserted: the root covers [0, 2], its children [0, 1] and [2, 2].
C35_Witness ==
    /\ kind = "Segment"
    /\ call.op = "insert"
    /\ Len(data) = 3
    /\ nodeCount = 3
    /\ root # null
    /\ root.left.end = 1
    /\ root.right.start = 2
    /\ root.right.left = null
    /\ root.value = data[1] + data[2] + data[3]

\* Every word of at most three of the letters a and b, the empty one included.
AllWords == UNION {[1..n -> {"a", "b"}] : n \in 0..3}

StoredIn(r, word) == Trie_searchFrom(r, word, 1) # null

\* C36: Trie delete(w) changes the membership of no word other than w: every
\* other word is stored after the call exactly if it was stored before it,
\* whether or not w itself was stored.
C36_DeleteKeepsOtherWords ==
    [][(kind = "Trie" /\ call'.op = "delete" /\ root # null) =>
          \A u \in AllWords :
              u # toLowerCase(call'.arg) => (StoredIn(root', u) <=> StoredIn(root, u))]_vars

\* "ab" was deleted from between "a" and "aba", which are both still stored,
\* and the three nodes of the chain are all kept.
C36_Witness ==
    /\ kind = "Trie"
    /\ call = Call("delete", <<"A", "b">>)
    /\ Range(getAllWords(root)) = {<<"a">>, <<"a", "b", "a">>}
    /\ wordCount = 3
    /\ nodeCount = 3

\* C37: after any sequence of AVL inserts and deletes the height stored in
\* every node is the node's true height, so that isBalanced(), which reads
\* the stored heights, agrees with the balance of the true heights.
C37_StoredHeightIsTrue ==
    kind = "AVL" =>
        /\ \A n \in Subtrees(root) : n.height = getHeight(n)
        /\ checkBalance(root) = StructurallyBalanced(root)

\* delete(12) in the tree of DeepInserts rotated the root: the heights of the
\* new root and of the nodes on its right spine were recomputed.
C37_Witness ==
    /\ kind = "AVL"
    /\ call = Call("delete", 12)
    /\ nodeCount = Len(DeepInserts) - 1
    /\ root.height = 4
    /\ root.right.height = 3
    /\ root.right.right.height = 2
    /\ root.left.height = 3

\* The binary trees, with inserts, deletes and, for the BST, balance calls.
NextParents ==
    \/ \E value \in Values :
           \/ BSTInsert(value) \/ BSTDelete(value)
           \/ AVLInsert(value) \/ AVLDelete(value)
           \/ RBInsert(value) \/ RBDelete(value)
    \/ BSTBalance

SpecParents == InitBinary /\ [][NextParents]_vars

\* C38: after any sequence of insert, delete and (for the BST) balance calls
\* on a BST, an AVL tree or a Red-Black tree the root's parent is null and the
\* parent of every other node is the node that holds it as a child.
C38_ParentsMatchChildren ==
    (kind \in BinaryKinds /\ root # null) =>
        /\ root.parent = NoRef
        /\ \A n \in Subtrees(root) :
              /\ n.left # null => n.left.parent = n.id
              /\ n.right # null => n.right.parent = n.id

(***************************************************************************)
(* EventBus.  A callback is named by a number; an entry of a callbacks     *)
(* array records what the function does when it is invoked: nothing to the *)
(* bus ("plain"), call the unsubscribe function that on() returned for it  *)
(* ("unsubscribing"), or, for the wrapper that once() subscribes, call     *)
(* off() for itself ("once").                                              *)
(***************************************************************************)
CallbackTypes == {"plain", "unsubscribing", "once"}

Subscribed == UNION {{events[name][i].fn : i \in 1..Len(events[name])} : name \in EventNames}

\* Array.prototype.indexOf on the callbacks array
indexOf(callbacks, fn) ==
    IF \E i \in 1..Len(callbacks) : callbacks[i].fn = fn
    THEN (CHOOSE i \in 1..Len(callbacks) :
             /\ callbacks[i].fn = fn
             /\ \A j \in 1..(i - 1) : callbacks[j].fn # fn) - 1
    ELSE -1

\* callbacks.splice(index, 1)
splice(callbacks, index) ==
    SubSeq(callbacks, 1, index) \o SubSeq(callbacks, index + 2, Len(callbacks))

\* off(eventName, callback) on the callbacks array of eventName
off(callbacks, fn) ==
    LET index == indexOf(callbacks, fn)
    IN  IF index > -1 THEN splice(callbacks, index) ELSE callbacks

\* callbacks.forEach(...) in emit: the array is the one that off() splices,
\* and forEach visits index i only while i is below its current length.
RECURSIVE forEach(_, _, _)
forEach(callbacks, i, done) ==
    IF i >= Len(callbacks) THEN [callbacks |-> callbacks, invoked |-> done]
    ELSE LET callback == callbacks[i + 1]
             after    == IF callback.type = "plain" THEN callbacks
                         ELSE off(callbacks, callback.fn)
         IN  forEach(after, i + 1, Append(done, callback.fn))

Subscribe(eventName, type, op) ==
    /\ Cardinality(Subscribed) < MaxCallbacks
    /\ LET fn == CHOOSE id \in 1..MaxCallbacks : id \notin Subscribed
       IN  events' = [events EXCEPT ![eventName] = Append(@, [fn |-> fn, type |-> type])]
    /\ call' = Call(op, eventName)
    /\ ret' = undefined
    /\ emitted' = <<>>
    /\ UNCHANGED <<kind, degree, animVars, invoked, root, nodeCount, heapVars, trieVars,
                   fenwickVars, present>>

On(eventName, type) == Subscribe(eventName, type, "on")

Once(eventName) == Subscribe(eventName, "once", "once")

Off(eventName, fn) ==
    /\ events' = [events EXCEPT ![eventName] = off(@, fn)]
    /\ call' = Call("off", eventName)
    /\ ret' = undefined
    /\ emitted' = <<>>
    /\ UNCHANGED <<kind, degree, animVars, invoked, root, nodeCount, heapVars, trieVars,
                   fenwickVars, present>>

Emit(eventName) ==
    /\ LET delivery == forEach(events[eventName], 0, <<>>)
       IN  /\ events' = [events EXCEPT ![eventName] = delivery.callbacks]
           /\ invoked' = delivery.invoked
    /\ call' = Call("emit", eventName)
    /\ ret' = undefined
    /\ emitted' = <<Event(eventName, undefinedKey)>>
    /\ UNCHANGED <<kind, degree, animVars, root, nodeCount, heapVars, trieVars,
                   fenwickVars, present>>

NextEventBus ==
    \E eventName \in EventNames :
        \/ \E type \in CallbackTypes \ {"once"} : On(eventName, type)
        \/ Once(eventName)
        \/ \E fn \in 1..MaxCallbacks : Off(eventName, fn)
        \/ Emit(eventName)

SpecEventBus == InitBST /\ [][NextEventBus]_vars

\* C39: emit invokes every callback that is subscribed to the event when emit
\* starts exactly once, in subscription order, also when some of them were
\* registered with once() or unsubscribe themselves during the delivery; and
\* a callback registered with once() is no longer subscribed after the emit
\* that invoked it.
C39_EmitReachesEverySubscriber ==
    [][call'.op = "emit" =>
          LET before == events[call'.arg]
              after  == events'[call'.arg]
          IN  /\ invoked' = [i \in 1..Len(before) |-> before[i].fn]
              /\ \A i \in 1..Len(before) :
                    before[i].type = "once" => indexOf(after, before[i].fn) = -1]_vars

\* TreeBase.isEmpty, which no structure overrides.
isEmpty == root = null

\* C40: in every reachable state of every structure isEmpty() returns true
\* exactly if getSize() is 0.
C40_EmptyIffSizeZero == isEmpty <=> (getSize = 0)
====
